---- MODULE Spec2Model ----
(***************************************************************************)
(* Model of the SATellite solver (src/main.cpp): the DIMACS builder, the   *)
(* Simplifier phase, the DPLL phase and the verdict macros, as run by      *)
(* Solver::run.                                                            *)
(***************************************************************************)
EXTENDS Integers, Sequences, FiniteSets, TLC

\* ------------------------------------------------------------------ bounds
\* variable ids of the free token stream are 1..MaxVar
MaxVar == 2
\* the free token stream holds at most MaxLits literals and empty clauses
MaxLits == 3

\* A fixed benchmark stream over three variables; the "pool" source feeds any
\* subsequence of its clauses, in this order.
Pool ==
  << <<-3>>, <<1, 2>>, <<1, 3>>, <<1, -2>>, <<2, 3>>, <<-1, 2>>, <<3, -3>>,
     <<-1, -3>>, <<2>> >>

\* ---------------------------------------------------------------- literals
NO_LITERAL == 0

toVariable(literal) == IF literal < 0 THEN -literal ELSE literal

toLiteral(variable, negate) == IF negate THEN -variable ELSE variable

isNegated(literal) == literal < 0

\* struct Assignment { bool assigned; bool value; }
Assignment(a, v) == [assigned |-> a, value |-> v]

\* ------------------------------------------------------- LiteralAssignment
\* m_assignments is a vector<bool>: two bits per variable (assigned, value).
setMaxVariable(m, max) ==
  [i \in 1..(max * 2) |-> IF i <= Len(m) THEN m[i] ELSE FALSE]

getMaxVariable(m) == Len(m) \div 2

getVariableAssignment(m, id) ==
  IF id > getMaxVariable(m)
  THEN Assignment(FALSE, FALSE)
  ELSE Assignment(m[(id - 1) * 2 + 1], m[(id - 1) * 2 + 2])

\* variant: the value is not negated for a negative literal
getLiteralAssignmentOfVariable(m, literal) ==
  getVariableAssignment(m, toVariable(literal))

getLiteralAssignment(m, literal) ==
  LET assignment == getVariableAssignment(m, toVariable(literal))
  IN Assignment(assignment.assigned,
         IF isNegated(literal) THEN ~assignment.value ELSE assignment.value)

\* variant: growing the vector clears it instead of resizing it
assignVariableCleared(m, id, value) ==
  LET m1 == IF id > getMaxVariable(m)
            THEN [i \in 1..(id * 2) |-> FALSE]
            ELSE m
  IN [m1 EXCEPT ![(id - 1) * 2 + 1] = TRUE, ![(id - 1) * 2 + 2] = value]

assignVariable(m, id, value) ==
  LET m1 == IF id > getMaxVariable(m) THEN setMaxVariable(m, id) ELSE m
  IN [m1 EXCEPT ![(id - 1) * 2 + 1] = TRUE, ![(id - 1) * 2 + 2] = value]

unassignVariable(m, id) == [m EXCEPT ![(id - 1) * 2 + 1] = FALSE]

assignLiteral(m, literal, value) ==
  assignVariable(m, toVariable(literal),
                 IF isNegated(literal) THEN ~value ELSE value)

\* variant: the test of assignment.assigned is missing
RECURSIVE printEveryVariable(_, _)
printEveryVariable(m, i) ==
  IF i > getMaxVariable(m) THEN <<>>
  ELSE << (IF getVariableAssignment(m, i).value THEN i ELSE -i), 0 >>
       \o printEveryVariable(m, i + 1)

\* LiteralAssignment::print(out, asAssignment = true): the tokens of the line
RECURSIVE printFrom(_, _)
printFrom(m, i) ==
  IF i > getMaxVariable(m) THEN <<>>
  ELSE LET assignment == getVariableAssignment(m, i)
       IN (IF assignment.assigned
           THEN << (IF assignment.value THEN i ELSE -i), 0 >>
           ELSE <<>>) \o printFrom(m, i + 1)

print(m) == printFrom(m, 1)

\* -------------------------------------------------------------------- Node
\* A LITERAL_OR node is the sequence of its literals; the AND root is the
\* sequence of its children.
defaultAssignment(type) ==
  IF type = "AND" THEN Assignment(TRUE, TRUE) ELSE Assignment(FALSE, FALSE)

shortCircuit(type, assignment) ==
  IF ~assignment.assigned THEN FALSE
  ELSE IF type = "AND" THEN ~assignment.value ELSE assignment.value

\* variant: updateAssignment as in the earlier version of Node (an
\* undetermined child clears assigned for both node types, a determined one
\* changes the value only)
updateAssignmentEarlier(type, assignment, childAssignment) ==
  IF ~childAssignment.assigned
  THEN [assignment EXCEPT !.assigned = FALSE]
  ELSE IF type = "AND"
       THEN (IF ~childAssignment.value
             THEN [assignment EXCEPT !.value = FALSE] ELSE assignment)
       ELSE (IF childAssignment.value
             THEN [assignment EXCEPT !.value = TRUE] ELSE assignment)

updateAssignment(type, assignment, childAssignment) ==
  IF ~childAssignment.assigned
  THEN (IF type = "AND" THEN [assignment EXCEPT !.assigned = FALSE]
        ELSE assignment)
  ELSE IF type = "AND"
       THEN (IF ~childAssignment.value THEN Assignment(TRUE, FALSE) ELSE assignment)
       ELSE (IF childAssignment.value THEN Assignment(TRUE, TRUE) ELSE assignment)

\* the literal loop of Node::evaluate (lines 336-346)
RECURSIVE scanLiterals(_, _, _, _)
scanLiterals(lits, i, m, st) ==
  CHOOSE r \in
    { IF i > Len(lits) THEN s
      ELSE IF lits[i] = NO_LITERAL THEN scanLiterals(lits, i + 1, m, s)
      ELSE CHOOSE q \in
        { IF shortCircuit("OR", a2)
          THEN [s EXCEPT !.assignment = a2, !.short = TRUE]
          ELSE scanLiterals(lits, i + 1, m,
                 [assignment |-> a2,
                  short |-> FALSE,
                  unassignedCount |->
                    IF getLiteralAssignment(m, lits[i]).assigned
                    THEN s.unassignedCount
                    ELSE s.unassignedCount + 1,
                  unitLiteral |->
                    IF ~getLiteralAssignment(m, lits[i]).assigned
                       /\ s.unassignedCount = 0
                    THEN lits[i] ELSE s.unitLiteral]) :
          a2 \in { updateAssignment("OR", s.assignment,
                                    getLiteralAssignment(m, lits[i])) } } : TRUE :
      s \in {st} } : TRUE

\* variant: propagateUnit is called for a clause with two unassigned literals
evaluateClauseOfTwo(lits, m) ==
  CHOOSE r \in
    { IF s.short THEN [assignment |-> s.assignment, unit |-> NO_LITERAL]
      ELSE [assignment |->
              IF s.unassignedCount = 0
              THEN [s.assignment EXCEPT !.assigned = TRUE]
              ELSE s.assignment,
            unit |-> IF s.unassignedCount = 2 THEN s.unitLiteral
                     ELSE NO_LITERAL] :
      s \in { scanLiterals(lits, 1, m,
                [assignment |-> defaultAssignment("OR"), short |-> FALSE,
                 unassignedCount |-> 0, unitLiteral |-> NO_LITERAL]) } } : TRUE

\* Node::evaluate on a LITERAL_OR node, up to the call of propagateUnit:
\* unit # 0 is the literal propagateUnit is called with.
evaluateClause(lits, m) ==
  CHOOSE r \in
    { IF s.short THEN [assignment |-> s.assignment, unit |-> NO_LITERAL]
      ELSE [assignment |->
              IF s.unassignedCount = 0
              THEN [s.assignment EXCEPT !.assigned = TRUE]
              ELSE s.assignment,
            unit |-> IF s.unassignedCount = 1 THEN s.unitLiteral
                     ELSE NO_LITERAL] :
      s \in { scanLiterals(lits, 1, m,
                [assignment |-> defaultAssignment("OR"), short |-> FALSE,
                 unassignedCount |-> 0, unitLiteral |-> NO_LITERAL]) } } : TRUE

\* One round of the children loop of Node::evaluate on the AND root (lines
\* 356-360): child.evaluate, the propagateUnit callback it may call, then
\* updateAssignment and shortCircuit.  prop names the callback: "none"
\* (returns false), "simplifier" (Simplifier::run lambda) or "dpll"
\* (DPLL::step lambda).  assigned is the flag the Simplifier lambda sets.
evaluateChild(child, st, prop) ==
  CHOOSE r \in
    { LET fire == c.unit # NO_LITERAL /\ prop # "none"
          ca == IF fire THEN Assignment(TRUE, TRUE) ELSE c.assignment
          acc2 == updateAssignment("AND", st.assignment, ca)
      IN [assignment |-> acc2,
          m |-> IF fire THEN assignLiteral(st.m, c.unit, TRUE) ELSE st.m,
          trail |-> IF fire /\ prop = "dpll"
                    THEN Append(st.trail, [assignment |-> c.unit, unit |-> TRUE])
                    ELSE st.trail,
          assigned |-> st.assigned \/ fire,
          short |-> shortCircuit("AND", acc2)] :
      c \in { evaluateClause(child, st.m) } } : TRUE

\* The children loop.  (The state is bound through a singleton set, so that
\* it is computed once per round.)
RECURSIVE evaluateChildren(_, _, _, _)
evaluateChildren(children, i, st, prop) ==
  CHOOSE r \in
    { IF i > Len(children) \/ s.short THEN s
      ELSE evaluateChildren(children, i + 1,
                            evaluateChild(children[i], s, prop), prop) :
      s \in {st} } : TRUE

\* variant: the flag of the Simplifier lambda is never cleared
evaluateFlagSet(children, m, tr, prop) ==
  [ evaluateChildren(children, 1,
      [assignment |-> defaultAssignment("AND"), m |-> m, trail |-> tr,
       assigned |-> FALSE, short |-> FALSE], prop) EXCEPT !.assigned = TRUE ]

\* variant: the flag of the Simplifier lambda is never set
evaluateFlagLost(children, m, tr, prop) ==
  [ evaluateChildren(children, 1,
      [assignment |-> defaultAssignment("AND"), m |-> m, trail |-> tr,
       assigned |-> FALSE, short |-> FALSE], prop) EXCEPT !.assigned = FALSE ]

\* Node::evaluate on the AND root
evaluate(children, m, tr, prop) ==
  evaluateChildren(children, 1,
    [assignment |-> defaultAssignment("AND"), m |-> m, trail |-> tr,
     assigned |-> FALSE, short |-> FALSE], prop)

\* isNone<T> with the element's own test folded into none[i]; keep[i] is the
\* result of the keep callback on element i.  Node::filter, returning the
\* elements between the new m_child_begin and m_child_end.
RECURSIVE filterSkip(_, _, _)
filterSkip(none, keep, current) ==
  IF current > Len(keep) THEN current
  ELSE IF none[current] THEN filterSkip(none, keep, current + 1)
  ELSE IF keep[current] THEN current
  ELSE filterSkip(none, keep, current + 1)

\* the second loop of Node::filter without the copy *target = *current: the
\* end moves but no element is shifted
RECURSIVE filterShiftInPlace(_, _, _, _)
filterShiftInPlace(st, none, keep, current) ==
  CHOOSE r \in
    { IF current > Len(s.arr) THEN s
      ELSE IF none[current] THEN filterShiftInPlace(s, none, keep, current + 1)
      ELSE filterShiftInPlace(
             [arr |-> s.arr,
              target |-> IF keep[current] THEN s.target + 1 ELSE s.target],
             none, keep, current + 1) :
      s \in {st} } : TRUE

\* the second loop of Node::filter (lines 425-439); st holds the array and
\* the target index (bound through a singleton set, as above)
RECURSIVE filterShift(_, _, _, _)
filterShift(st, none, keep, current) ==
  CHOOSE r \in
    { IF current > Len(s.arr) THEN s
      ELSE IF none[current] THEN filterShift(s, none, keep, current + 1)
      ELSE filterShift(
             [arr |-> IF s.target # current
                      THEN [s.arr EXCEPT ![s.target] = s.arr[current]]
                      ELSE s.arr,
              target |-> IF keep[current] THEN s.target + 1 ELSE s.target],
             none, keep, current + 1) :
      s \in {st} } : TRUE

filter(arr, none, keep) ==
  CHOOSE v \in
    { SubSeq(r.arr, r.begin, r.target - 1) :
      r \in { [begin |-> begin] @@
              filterShift([arr |-> arr, target |-> begin], none, keep, begin) :
              begin \in {filterSkip(none, keep, 1)} } } : TRUE

\* Node::simplify on a LITERAL_OR node
simplifyLiterals(lits, m) ==
  filter(lits,
         [i \in 1..Len(lits) |-> lits[i] = NO_LITERAL],
         [i \in 1..Len(lits) |-> ~getLiteralAssignment(m, lits[i]).assigned])

\* Node::simplify on the AND root
simplify(children, m) ==
  CHOOSE v \in
    { [i \in 1..Len(kept) |-> simplifyLiterals(kept[i], m)] :
      kept \in { filter(children,
                   [i \in 1..Len(children) |-> FALSE],
                   [i \in 1..Len(children) |->
                      LET assigned == evaluateClause(children[i], m).assignment
                      IN ~(assigned.assigned /\ assigned.value)]) } } : TRUE

\* Node::visitLiterals / getUnassignedVariables: a std::set, iterated ascending
unassignedVariableSet(children, m) ==
  UNION { { toVariable(children[i][j]) :
              j \in { k \in 1..Len(children[i]) :
                        /\ children[i][k] # NO_LITERAL
                        /\ ~getLiteralAssignment(m, children[i][k]).assigned } } :
          i \in 1..Len(children) }

RECURSIVE ascending(_)
ascending(S) ==
  IF S = {} THEN <<>>
  ELSE LET x == CHOOSE y \in S : \A z \in S : y <= z
       IN <<x>> \o ascending(S \ {x})

getUnassignedVariables(children, m) == ascending(unassignedVariableSet(children, m))

\* ------------------------------------------------------------------- state
VARIABLES
  source,         \* "stream": any token up to the bounds; "pool": tokens of Pool
  poolPos,        \* index of the last Pool clause that was fed
  phi,            \* history: the clauses of the input read so far, in order
  m_current,      \* ContextBuilder::m_current
  nodeMemory,     \* Context::nodeMemory: the LITERAL_OR nodes
  root,           \* children of Context::root (<<>> while root is null)
  m_assignments,  \* Context::assignments
  trail,          \* DPLL::trail
  stack,          \* activation records of DPLL::step, innermost last
  ret,            \* value returned by the last finished DPLL::step
  pc,             \* position of Solver::run
  phase,          \* name of the phase Solver::runPhase is running
  stdout,         \* verdict lines written to std::cout
  exitCode,       \* argument of exit(), -1 while the process runs
  details         \* last message written to std::cerr by a macro

\* the state of a run of GraphSolver::run
VARIABLES
  input,            \* history: the numbers FileParser has handed to addLiteral
  clauses,          \* GraphSolver::clauses: ClauseID -> literals
  variables,        \* GraphSolver::variables: VariableID -> Variable
  currentLiterals,  \* GraphSolver::currentLiterals
  calls             \* activation records of the GraphSolver, innermost last

graphVars == << input, clauses, variables, currentLiterals, calls >>

treeVars == << phi, m_current, nodeMemory, root, m_assignments, trail, stack,
               ret, phase >>

vars == << source, poolPos, phi, m_current, nodeMemory, root, m_assignments,
           trail, stack, ret, pc, phase, stdout, exitCode, details, input,
           clauses, variables, currentLiterals, calls >>

Init ==
  /\ source \in {"stream", "pool"}
  /\ poolPos = 0
  /\ phi = <<>>
  /\ m_current = <<>>
  /\ nodeMemory = <<>>
  /\ root = <<>>
  /\ m_assignments = <<>>
  /\ trail = <<>>
  /\ stack = <<>>
  /\ ret = Assignment(FALSE, FALSE)
  /\ pc = "build"
  /\ phase = "Build"
  /\ stdout = <<>>
  /\ exitCode = -1
  /\ details = ""
  /\ input = <<>>
  /\ clauses = << >>
  /\ variables = << >>
  /\ currentLiterals = {}
  /\ calls = <<>>

\* ------------------------------------------------------------ verdict macros
\* SOLUTION_FOUND(assignment)
SOLUTION_FOUND ==
  /\ stdout' = Append(stdout, [kind |-> "SAT", line |-> print(m_assignments')])
  /\ exitCode' = 0
  /\ details' = "Solution Found"
  /\ pc' = "exit"

\* variant: the macro writes the verdict and does not exit
NO_SOLUTION_noExit(msg) ==
  /\ stdout' = Append(stdout, [kind |-> "UNSAT", line |-> <<>>])
  /\ details' = msg
  /\ UNCHANGED << exitCode, pc >>

\* NO_SOLUTION(details)
NO_SOLUTION(msg) ==
  /\ stdout' = Append(stdout, [kind |-> "UNSAT", line |-> <<>>])
  /\ exitCode' = 1
  /\ details' = msg
  /\ pc' = "exit"

\* ASSURE(condition, msg) with a false condition
ASSURE_failed(msg) ==
  /\ exitCode' = 1
  /\ details' = msg
  /\ pc' = "exit"
  /\ UNCHANGED stdout

\* Solver::runPhaseResult on the Assignment a phase returned
runPhaseResult(assignment, next) ==
  IF assignment.assigned
  THEN IF assignment.value THEN SOLUTION_FOUND
       ELSE NO_SOLUTION("Simplified to False")
  ELSE next

\* ----------------------------------------------------------------- builder
RECURSIVE totalLen(_)
totalLen(formula) ==
  IF formula = <<>> THEN 0 ELSE Len(Head(formula)) + totalLen(Tail(formula))

\* the number of literals and of empty clauses read so far
literalCount ==
  Len(m_current) + totalLen(phi)
    + Cardinality({ i \in 1..Len(phi) : phi[i] = <<>> })

\* the Pool clauses that can still be fed and that start with m_current
poolCandidates ==
  { i \in (poolPos + 1)..Len(Pool) :
      /\ Len(Pool[i]) >= Len(m_current)
      /\ SubSeq(Pool[i], 1, Len(m_current)) = m_current }

\* the tokens the input can hold next
allowedToken(literal) ==
  IF source = "stream"
  THEN \/ literal = 0 /\ m_current # <<>>
       \/ literal \in -MaxVar..MaxVar /\ literalCount < MaxLits
  ELSE IF literal = 0
       THEN \E i \in poolCandidates : Pool[i] = m_current
       ELSE \E i \in poolCandidates :
              /\ Len(Pool[i]) > Len(m_current)
              /\ Pool[i][Len(m_current) + 1] = literal

\* ContextBuilder::addConjunction
addConjunction ==
  IF Len(m_current) = 0
  THEN UNCHANGED << m_current, nodeMemory, m_assignments, pc, stdout,
                    exitCode, details >>
  ELSE
    /\ IF Len(m_current) = 1
       THEN LET literal == m_current[1]
                existingAssignment == getLiteralAssignment(m_assignments, literal)
            IN /\ UNCHANGED nodeMemory
               /\ IF existingAssignment.assigned
                  THEN IF ~existingAssignment.value
                       THEN /\ NO_SOLUTION("conflict")
                            /\ UNCHANGED << m_current, m_assignments >>
                       ELSE /\ m_current' = <<>>
                            /\ UNCHANGED << m_assignments, pc, stdout,
                                            exitCode, details >>
                  ELSE /\ m_assignments' = assignLiteral(m_assignments, literal, TRUE)
                       /\ m_current' = <<>>
                       /\ UNCHANGED << pc, stdout, exitCode, details >>
       ELSE /\ nodeMemory' = Append(nodeMemory, m_current)
            /\ m_current' = <<>>
            /\ UNCHANGED << m_assignments, pc, stdout, exitCode, details >>

\* ContextBuilder::addLiteral, called by FileParser::parseChunk with the next
\* number of the input
AddLiteral(literal) ==
  /\ UNCHANGED graphVars
  /\ pc = "build"
  /\ allowedToken(literal)
  /\ IF literal = 0
     THEN /\ addConjunction
          /\ phi' = Append(phi, m_current)
          /\ poolPos' = IF source = "pool" /\ m_current # <<>>
                        THEN CHOOSE i \in poolCandidates : Pool[i] = m_current
                        ELSE poolPos
     ELSE /\ m_current' = Append(m_current, literal)
          /\ UNCHANGED << poolPos, phi, nodeMemory, m_assignments, pc, stdout,
                          exitCode, details >>
  /\ UNCHANGED << source, phase, root, trail, stack, ret >>

\* FileParser::parseChunk meets the end of the input right after a minus sign
\* (the ASSURE of line 597)
UnexpectedEnd ==
  /\ UNCHANGED graphVars
  /\ pc = "build"
  /\ ASSURE_failed("Unexpected end of input")
  /\ UNCHANGED << source, phase, poolPos, phi, m_current, nodeMemory, root,
                  m_assignments, trail, stack, ret >>

\* FileParser::parseChunk meets a character that is no digit where a number
\* is read (the ASSURE of line 603)
UnexpectedCharacter ==
  /\ UNCHANGED graphVars
  /\ pc = "build"
  /\ ASSURE_failed("Unexpected character")
  /\ UNCHANGED << source, phase, poolPos, phi, m_current, nodeMemory, root,
                  m_assignments, trail, stack, ret >>

\* end of input: FileParser::run calls ContextBuilder::finish
Finish ==
  /\ UNCHANGED graphVars
  /\ pc = "build"
  /\ IF m_current = <<>>
     THEN /\ root' = nodeMemory
          /\ pc' = "simplify"
          /\ phase' = "Simplify"
          /\ UNCHANGED << stdout, exitCode, details >>
     ELSE /\ ASSURE_failed("Unexpected end of input")
          /\ UNCHANGED << root, phase >>
  /\ UNCHANGED << source, poolPos, phi, m_current, nodeMemory, m_assignments,
                  trail, stack, ret >>

\* --------------------------------------------------------------- Simplifier
\* one round of the do-while loop of Simplifier::run
SimplifyPass ==
  /\ UNCHANGED graphVars
  /\ pc = "simplify"
  /\ \E r \in { evaluate(root, m_assignments, <<>>, "simplifier") } :
        /\ m_assignments' = r.m
        /\ IF ~r.assignment.assigned /\ r.assigned
           THEN UNCHANGED << pc, stdout, exitCode, details >>
           ELSE IF ~r.assignment.assigned
                THEN /\ pc' = "simplifyTree"
                     /\ UNCHANGED << stdout, exitCode, details >>
                ELSE runPhaseResult(r.assignment, FALSE)
  /\ UNCHANGED << source, phase, poolPos, phi, m_current, nodeMemory, root, trail,
                  stack, ret >>

\* the tail of Simplifier::run: m_ctx.root->simplify(m_ctx.assignments)
SimplifyTree ==
  /\ UNCHANGED graphVars
  /\ pc = "simplifyTree"
  /\ root' = simplify(root, m_assignments)
  /\ pc' = "step"
  /\ phase' = "DPLL"
  /\ UNCHANGED << source, poolPos, phi, m_current, nodeMemory, m_assignments,
                  trail, stack, ret, stdout, exitCode, details >>

\* --------------------------------------------------------------------- DPLL
\* variant: the decision is pushed as if it were a propagation step
assignAsUnit(tr, m, lit, unit) ==
  [trail |-> Append(tr, [assignment |-> lit, unit |-> TRUE]),
   m |-> assignLiteral(m, lit, TRUE)]

\* DPLL::assign
assign(tr, m, lit, unit) ==
  [trail |-> Append(tr, [assignment |-> lit, unit |-> unit]),
   m |-> assignLiteral(m, lit, TRUE)]

\* variant: the entries are popped and their variables stay assigned
RECURSIVE unwindKeepsAssignment(_, _)
unwindKeepsAssignment(tr, m) ==
  IF tr = <<>> THEN [trail |-> tr, m |-> m, past |-> TRUE]
  ELSE IF ~tr[Len(tr)].unit
       THEN [trail |-> SubSeq(tr, 1, Len(tr) - 1), m |-> m, past |-> FALSE]
       ELSE unwindKeepsAssignment(SubSeq(tr, 1, Len(tr) - 1), m)

\* variant: the decision is unassigned and the propagated entries above it
\* are left on the trail
unwindDecisionOnly(tr, m) ==
  IF \A k \in 1..Len(tr) : tr[k].unit
  THEN [trail |-> <<>>, m |-> m, past |-> TRUE]
  ELSE LET d == CHOOSE k \in 1..Len(tr) :
                  ~tr[k].unit /\ \A j \in (k + 1)..Len(tr) : tr[j].unit
       IN [trail |-> SubSeq(tr, 1, d - 1) \o SubSeq(tr, d + 1, Len(tr)),
           m |-> unassignVariable(m, toVariable(tr[d].assignment)),
           past |-> FALSE]

\* variant: unwind does not stop at the decision and empties the trail
RECURSIVE unwindAll(_, _)
unwindAll(tr, m) ==
  IF tr = <<>> THEN [trail |-> tr, m |-> m, past |-> FALSE]
  ELSE unwindAll(SubSeq(tr, 1, Len(tr) - 1),
                 unassignVariable(m, toVariable(tr[Len(tr)].assignment)))

\* variant: unwind pops one entry more than the level of the decision
unwindOneMore(tr, m) ==
  LET k == CHOOSE j \in 0..Len(tr) :
             /\ j = 0 \/ ~tr[j].unit
             /\ \A i \in (j + 1)..Len(tr) : tr[i].unit
      keep == IF k >= 2 THEN k - 2 ELSE 0
  IN [trail |-> SubSeq(tr, 1, keep),
      m |-> unwindAll(SubSeq(tr, keep + 1, Len(tr)), m).m,
      past |-> FALSE]

\* DPLL::unwind; past is set when trail.back() is taken on an empty trail
RECURSIVE unwind(_, _)
unwind(tr, m) ==
  IF tr = <<>> THEN [trail |-> tr, m |-> m, past |-> TRUE]
  ELSE LET step == tr[Len(tr)]
           m2 == unassignVariable(m, toVariable(step.assignment))
           tr2 == SubSeq(tr, 1, Len(tr) - 1)
       IN IF ~step.unit THEN [trail |-> tr2, m |-> m2, past |-> FALSE]
          ELSE unwind(tr2, m2)

\* entry of DPLL::step (lines 719-723)
StepEnter ==
  /\ UNCHANGED graphVars
  /\ pc = "step"
  /\ LET unassigned == getUnassignedVariables(root, m_assignments)
     IN IF unassigned = <<>>
        THEN /\ ret' = Assignment(TRUE, FALSE)
             /\ pc' = "returned"
             /\ UNCHANGED stack
        ELSE /\ stack' = Append(stack, [variables |-> unassigned, i |-> 1,
                                        negate |-> FALSE])
             /\ pc' = "decide"
             /\ UNCHANGED ret
  /\ UNCHANGED << source, phase, poolPos, phi, m_current, nodeMemory, root,
                  m_assignments, trail, stdout, exitCode, details >>

\* variant: the value false is tried first
DecideFalseFirst ==
  /\ UNCHANGED graphVars
  /\ pc = "decide"
  /\ LET f == stack[Len(stack)]
         a == assign(trail, m_assignments,
                     toLiteral(f.variables[f.i], ~f.negate), FALSE)
         r == evaluate(root, a.m, a.trail, "dpll")
     IN /\ m_assignments' = r.m
        /\ trail' = r.trail
        /\ IF r.assignment.assigned /\ r.assignment.value
           THEN /\ ret' = Assignment(TRUE, TRUE)
                /\ stack' = SubSeq(stack, 1, Len(stack) - 1)
                /\ pc' = "returned"
           ELSE /\ pc' = "step"
                /\ UNCHANGED << ret, stack >>
  /\ UNCHANGED << source, phase, poolPos, phi, m_current, nodeMemory, root, stdout,
                  exitCode, details >>

\* a decision of DPLL::step and the evaluation that follows it
\* (lines 733-743 for the value true, 754-764 for the value false)
Decide ==
  /\ UNCHANGED graphVars
  /\ pc = "decide"
  /\ LET f == stack[Len(stack)]
         a == assign(trail, m_assignments,
                     toLiteral(f.variables[f.i], f.negate), FALSE)
         r == evaluate(root, a.m, a.trail, "dpll")
     IN /\ m_assignments' = r.m
        /\ trail' = r.trail
        /\ IF r.assignment.assigned /\ r.assignment.value
           THEN /\ ret' = Assignment(TRUE, TRUE)
                /\ stack' = SubSeq(stack, 1, Len(stack) - 1)
                /\ pc' = "returned"
           ELSE /\ pc' = "step"
                /\ UNCHANGED << ret, stack >>
  /\ UNCHANGED << source, phase, poolPos, phi, m_current, nodeMemory, root, stdout,
                  exitCode, details >>

\* the recursive call of DPLL::step has returned to its caller
\* (lines 745-749 and 766-770)
Returned ==
  /\ UNCHANGED graphVars
  /\ pc = "returned"
  /\ stack # <<>>
  /\ IF ret.assigned /\ ret.value
     THEN /\ stack' = SubSeq(stack, 1, Len(stack) - 1)
          /\ UNCHANGED << pc, ret >>
     ELSE /\ pc' = "unwind"
          /\ UNCHANGED << stack, ret >>
  /\ UNCHANGED << source, phase, poolPos, phi, m_current, nodeMemory, root,
                  m_assignments, trail, stdout, exitCode, details >>

\* unwind() and the advance of the loop of DPLL::step (lines 751, 772-775)
Unwind ==
  /\ UNCHANGED graphVars
  /\ pc = "unwind"
  /\ LET f == stack[Len(stack)]
         u == unwind(trail, m_assignments)
     IN /\ trail' = u.trail
        /\ m_assignments' = u.m
        /\ IF ~f.negate
           THEN /\ stack' = [stack EXCEPT ![Len(stack)].negate = TRUE]
                /\ pc' = "decide"
                /\ UNCHANGED ret
           ELSE IF f.i < Len(f.variables)
                THEN /\ stack' = [stack EXCEPT ![Len(stack)].negate = FALSE,
                                               ![Len(stack)].i = f.i + 1]
                     /\ pc' = "decide"
                     /\ UNCHANGED ret
                ELSE /\ stack' = SubSeq(stack, 1, Len(stack) - 1)
                     /\ ret' = Assignment(FALSE, FALSE)
                     /\ pc' = "returned"
  /\ UNCHANGED << source, phase, poolPos, phi, m_current, nodeMemory, root, stdout,
                  exitCode, details >>

\* DPLL::run has returned to Solver::run (lines 820-824)
DPLLResult ==
  /\ UNCHANGED graphVars
  /\ pc = "returned"
  /\ stack = <<>>
  /\ UNCHANGED << source, phase, poolPos, phi, m_current, nodeMemory, root,
                  m_assignments, trail, stack, ret >>
  /\ runPhaseResult(ret, NO_SOLUTION("None found"))

\* ------------------------------------------- the run as a function of input
\* The same code read as a function from the clause list to the verdict, used
\* to compare the runs on two inputs.
\* FileParser::run: addConjunction for every clause, then finish
RECURSIVE buildFrom(_, _, _, _)
buildFrom(formula, i, m, nodes) ==
  IF i > Len(formula) THEN [conflict |-> FALSE, m |-> m, nodes |-> nodes]
  ELSE IF Len(formula[i]) = 0 THEN buildFrom(formula, i + 1, m, nodes)
  ELSE IF Len(formula[i]) = 1
       THEN LET existingAssignment == getLiteralAssignment(m, formula[i][1])
            IN IF existingAssignment.assigned
               THEN IF ~existingAssignment.value
                    THEN [conflict |-> TRUE, m |-> m, nodes |-> nodes]
                    ELSE buildFrom(formula, i + 1, m, nodes)
               ELSE buildFrom(formula, i + 1,
                              assignLiteral(m, formula[i][1], TRUE), nodes)
       ELSE buildFrom(formula, i + 1, m, Append(nodes, formula[i]))

\* Simplifier::run
RECURSIVE simplifierRun(_, _)
simplifierRun(children, m) ==
  LET r == evaluate(children, m, <<>>, "simplifier")
  IN IF ~r.assignment.assigned /\ r.assigned
     THEN simplifierRun(children, r.m)
     ELSE [result |-> r.assignment, m |-> r.m,
           children |-> IF ~r.assignment.assigned
                        THEN simplify(children, r.m) ELSE children]

\* DPLL::step; loopFrom is its for loop from variable i, value negate
RECURSIVE step(_, _, _)
RECURSIVE loopFrom(_, _, _, _, _, _)
step(children, m, tr) ==
  LET unassigned == getUnassignedVariables(children, m)
  IN IF unassigned = <<>>
     THEN [result |-> Assignment(TRUE, FALSE), m |-> m, trail |-> tr]
     ELSE loopFrom(children, unassigned, 1, FALSE, m, tr)

loopFrom(children, unassigned, i, negate, m, tr) ==
  LET a == assign(tr, m, toLiteral(unassigned[i], negate), FALSE)
      r == evaluate(children, a.m, a.trail, "dpll")
  IN IF r.assignment.assigned /\ r.assignment.value
     THEN [result |-> Assignment(TRUE, TRUE), m |-> r.m, trail |-> r.trail]
     ELSE LET inner == step(children, r.m, r.trail)
          IN IF inner.result.assigned /\ inner.result.value
             THEN inner
             ELSE LET u == unwind(inner.trail, inner.m)
                  IN IF ~negate
                     THEN loopFrom(children, unassigned, i, TRUE, u.m, u.trail)
                     ELSE IF i < Len(unassigned)
                     THEN loopFrom(children, unassigned, i + 1, FALSE, u.m,
                                   u.trail)
                     ELSE [result |-> Assignment(FALSE, FALSE), m |-> u.m,
                           trail |-> u.trail]

\* Solver::run on a well-formed input: the line written to std::cout
run(formula) ==
  LET b == buildFrom(formula, 1, <<>>, <<>>)
      sat(m) == [kind |-> "SAT", line |-> print(m)]
      unsat == [kind |-> "UNSAT", line |-> <<>>]
  IN IF b.conflict THEN unsat
     ELSE LET s == simplifierRun(b.nodes, b.m)
          IN IF s.result.assigned
             THEN (IF s.result.value THEN sat(s.m) ELSE unsat)
             ELSE LET d == step(s.children, s.m, <<>>)
                  IN IF d.result.assigned /\ d.result.value THEN sat(d.m)
                     ELSE unsat

\* ------------------------------------------------------- propositional logic
\* the variables of a clause list
variablesOf(formula) ==
  UNION { { toVariable(formula[i][j]) : j \in 1..Len(formula[i]) } :
          i \in 1..Len(formula) }

\* the literals of a sequence of numbers
literalsOf(clause) == { clause[j] : j \in 1..Len(clause) } \ {0}

\* T is the set of variables that are true
holds(literal, T) == IF literal > 0 THEN literal \in T ELSE (-literal) \notin T

models(T, formula) ==
  \A i \in 1..Len(formula) : \E l \in literalsOf(formula[i]) : holds(l, T)

satisfiable(formula) == \E T \in SUBSET variablesOf(formula) : models(T, formula)

isTautology(clause) == \E l \in literalsOf(clause) : (-l) \in literalsOf(clause)


\* the assignment read off the bits of m_assignments
assignedVars ==
  { v \in 1..(Len(m_assignments) \div 2) : m_assignments[2 * v - 1] }

trueVars == { v \in assignedVars : m_assignments[2 * v] }

litOpen(l) == toVariable(l) \notin assignedVars

litFalse(l) == toVariable(l) \in assignedVars /\ ~holds(l, trueVars)

\* all literals of the clause but one are false and the remaining one is open
isUnit(clause) ==
  \E j \in 1..Len(clause) :
    /\ litOpen(clause[j])
    /\ \A k \in 1..Len(clause) : k # j => litFalse(clause[k])

\* the literals forced by a chain of unit implications, L being those forced
\* so far
RECURSIVE unitClosure(_, _)
unitClosure(formula, L) ==
  LET new == { l \in UNION { literalsOf(formula[i]) : i \in 1..Len(formula) } :
                 /\ l \notin L /\ (-l) \notin L
                 /\ \E i \in 1..Len(formula) : \E j \in 1..Len(formula[i]) :
                      /\ formula[i][j] = l
                      /\ \A k \in 1..Len(formula[i]) :
                           k # j => (-formula[i][k]) \in L }
  IN IF new = {} THEN L ELSE unitClosure(formula, L \cup new)

\* the chain forces every variable, without a conflict
chainForcesAll(formula) ==
  LET L == unitClosure(formula, {})
  IN /\ formula # <<>>
     /\ \A l \in L : (-l) \notin L
     /\ { toVariable(l) : l \in L } = variablesOf(formula)
     /\ \A i \in 1..Len(formula) : literalsOf(formula[i]) \cap L # {}

removeAt(seq, i) == SubSeq(seq, 1, i - 1) \o SubSeq(seq, i + 1, Len(seq))

inputError == details \in {"Unexpected end of input", "Unexpected character"}

\* a verdict has been written
verdict == pc = "exit" /\ stdout # <<>>

\* the state machine and the function agree on every finished run
RunAgrees == verdict => stdout = << run(phi) >>

\* a SAT line holds a literal of every clause of the input that is not empty
SoundOnNonEmptyClauses ==
  \A k \in 1..Len(stdout) :
    stdout[k].kind = "SAT" =>
      \A i \in 1..Len(phi) :
        phi[i] # <<>> =>
          \E l \in literalsOf(phi[i]) : l \in literalsOf(stdout[k].line)

\* ------------------------------------------------------------ specification
\* the steps of the run that read no further token
Proceed ==
  \/ UnexpectedCharacter
  \/ UnexpectedEnd
  \/ Finish
  \/ SimplifyPass
  \/ SimplifyTree
  \/ StepEnter
  \/ Decide
  \/ Returned
  \/ Unwind
  \/ DPLLResult

\* the numbers the input can hold: 0 and the literals of both sources
tokens ==
  (-MaxVar..MaxVar)
    \cup UNION { { Pool[i][j] : j \in 1..Len(Pool[i]) } : i \in 1..Len(Pool) }

Next ==
  \/ \E literal \in tokens : AddLiteral(literal)
  \/ Proceed

Spec == Init /\ [][Next]_vars

\* The input is finite and the process is single-threaded and runs to
\* completion: the parser reaches the end of its input, and whenever a later
\* step of the run is possible it is taken.
FairSpec == Spec /\ WF_vars(Proceed)

TypeOK ==
  /\ pc \in {"build", "simplify", "simplifyTree", "step", "decide",
             "returned", "unwind", "exit"}
  /\ exitCode \in {-1, 0, 1}

\* ------------------------------------------------------------- GraphSolver
\* Clauses fed to the GraphSolver from the "pool" source: any subsequence, in
\* this order
GraphPool ==
  << <<-1>>, <<1, 2>>, <<1, 2, 3>>, <<-1, -2>>, <<3>>, <<1, 3>>, <<-1, 3>>,
     <<1, -2>> >>

\* class GraphSolver::Variable as constructed by try_emplace
Variable ==
  [positiveClauses |-> {}, negativeClauses |-> {}, assigned |-> FALSE,
   value |-> FALSE]

\* an activation record of a member function of the GraphSolver; cur is the
\* element a range-for or the loop of finish stands at, max the loop bound
Call(op, id, value, stage) ==
  [op |-> op, id |-> id, value |-> value, stage |-> stage, cur |-> 0,
   max |-> 0]

\* the number of calls of addLiteral that inserted into currentLiterals;
\* open tells whether currentLiterals was non-empty before the first call
RECURSIVE insertions(_, _)
insertions(numbers, open) ==
  IF numbers = <<>> THEN 0
  ELSE IF Head(numbers) = 0 /\ open THEN insertions(Tail(numbers), FALSE)
  ELSE 1 + insertions(Tail(numbers), TRUE)

\* the numbers the input of the GraphSolver may continue with, and the
\* clause of GraphPool that is being fed
graphToken(literal) ==
  IF source = "stream"
  THEN /\ \/ literal = 0 /\ currentLiterals # {}
          \/ literal \in -MaxVar..MaxVar /\ insertions(input, FALSE) < MaxLits
       /\ UNCHANGED poolPos
  ELSE IF currentLiterals = {}
       THEN \E i \in (poolPos + 1)..Len(GraphPool) :
              literal = GraphPool[i][1] /\ poolPos' = i
       ELSE /\ literal =
                 IF Cardinality(currentLiterals) < Len(GraphPool[poolPos])
                 THEN GraphPool[poolPos][Cardinality(currentLiterals) + 1]
                 ELSE 0
            /\ UNCHANGED poolPos

\* the clauses of a DIMACS stream: every 0 ends a clause; pending holds the
\* literals read since the last 0
RECURSIVE dimacs(_, _)
dimacs(numbers, pending) ==
  IF numbers = <<>> THEN <<>>
  ELSE IF Head(numbers) = 0
       THEN << pending >> \o dimacs(Tail(numbers), <<>>)
       ELSE dimacs(Tail(numbers), Append(pending, Head(numbers)))

\* GraphSolver::print(out) with asAssignment = false: the dump of both maps
printGraph == [kind |-> "graph", clauses |-> clauses, variables |-> variables]

\* GraphSolver::print(out, true) from variable v on: the assigned variables
\* in ascending order, each followed by 0
RECURSIVE printAssignmentFrom(_, _)
printAssignmentFrom(vs, v) ==
  IF \A w \in DOMAIN vs : w < v THEN <<>>
  ELSE (IF v \in DOMAIN vs /\ vs[v].assigned
        THEN << toLiteral(v, ~vs[v].value), 0 >> ELSE <<>>)
       \o printAssignmentFrom(vs, v + 1)

printAssignment(vs) == printAssignmentFrom(vs, 0)

\* GraphSolver::addLiteral, called by FileParser::parseChunk with the next
\* number of the input
GraphAddLiteral(literal) ==
  /\ pc = "build" /\ calls = <<>>
  /\ graphToken(literal)
  /\ input' = Append(input, literal)
  /\ IF literal = 0 /\ Cardinality(currentLiterals) > 0
     THEN LET clauseID == Cardinality(DOMAIN clauses) + 1
              emplaced == [c \in DOMAIN clauses \cup {clauseID} |->
                             IF c = clauseID THEN currentLiterals
                             ELSE clauses[c]]
          IN /\ clauses' = emplaced
             /\ currentLiterals' = {}
             /\ variables' =
                  [v \in DOMAIN variables
                           \cup { toVariable(lit) : lit \in currentLiterals } |->
                    LET var == IF v \in DOMAIN variables THEN variables[v]
                               ELSE Variable
                    IN [var EXCEPT
                          !.negativeClauses =
                             IF \E lit \in currentLiterals :
                                  toVariable(lit) = v /\ isNegated(lit)
                             THEN @ \cup {clauseID} ELSE @,
                          !.positiveClauses =
                             IF \E lit \in currentLiterals :
                                  toVariable(lit) = v /\ ~isNegated(lit)
                             THEN @ \cup {clauseID} ELSE @]]
     ELSE /\ currentLiterals' = currentLiterals \cup {literal}
          /\ UNCHANGED << clauses, variables >>
  /\ UNCHANGED << source, pc, stdout, exitCode, details, calls >>
  /\ UNCHANGED treeVars

\* end of input: FileParser::run calls GraphSolver::finish, which dumps the
\* graph and starts its loop over the clause ids
GraphFinish ==
  /\ pc = "build" /\ calls = <<>>
  /\ stdout' = Append(stdout, printGraph)
  /\ calls' = << [Call("finish", 0, FALSE, "clauses") EXCEPT
                    !.max = Cardinality(DOMAIN clauses)] >>
  /\ pc' = "finish"
  /\ UNCHANGED << source, poolPos, exitCode, details, input, clauses,
                  variables, currentLiterals >>
  /\ UNCHANGED treeVars

\* variant: the clause is visited whatever the value is
visitOnly(stage, value) == "visitClause"

\* the call a loop of GraphSolver::assignVariable makes on a clause: the
\* clause is removed if the value makes the literal true, and visited if not
removeOrVisit(stage, value) ==
  IF (stage = "positive") = value THEN "removeClause" ELSE "visitClause"

\* GraphSolver::removeFromClause on a clause that is present
removeFromClause(cs, id, lit) == [cs EXCEPT ![id] = @ \ {lit}]

\* GraphSolver::removeFromVariable on a variable that is present
removeFromVariable(vs, lit, id) ==
  [vs EXCEPT ![toVariable(lit)] =
     IF isNegated(lit)
     THEN [@ EXCEPT !.negativeClauses = @ \ {id}]
     ELSE [@ EXCEPT !.positiveClauses = @ \ {id}]]

\* the activation record that is running
top == calls[Len(calls)]

\* the caller's records
callers == SubSeq(calls, 1, Len(calls) - 1)

\* a member function is running
running == pc \in {"build", "finish"} /\ calls # <<>>

\* the least element of a non-empty set of numbers: *begin() of a std::set
least(S) == CHOOSE x \in S : \A y \in S : x <= y

\* variant: the iterator is not advanced
afterOrAt(S, cur) == { x \in S : x >= cur }

\* the elements of a std::set that a range-for standing at cur has still to
\* visit
after(S, cur) == { x \in S : x > cur }

\* SOLUTION_FOUND((*this)) of the GraphSolver
GraphSolutionFound ==
  /\ stdout' = Append(stdout, [kind |-> "SAT",
                               line |-> printAssignment(variables)])
  /\ exitCode' = 0
  /\ details' = "Solution Found"
  /\ pc' = "exit"

\* Undefined behaviour: clause(id) or variable(id) dereferences end(), or a
\* range-for advances an iterator whose element or container was erased. The
\* process may crash, stop with an assertion, or go on and end with any
\* verdict or none.
UndefinedBehaviour(msg) ==
  /\ details' = msg
  /\ pc' = "exit"
  /\ exitCode' \in {0, 1, 139}
  /\ stdout' \in { stdout,
                   Append(stdout, [kind |-> "UNSAT", line |-> <<>>]),
                   Append(stdout, [kind |-> "SAT",
                                   line |-> printAssignment(variables)]) }
  /\ UNCHANGED << clauses, variables, calls >>

\* the first loop of GraphSolver::finish: the next clause id that is present
\* is visited
FinishClauses ==
  /\ running /\ top.op = "finish" /\ top.stage = "clauses"
  /\ LET ids == { id \in (top.cur + 1)..top.max : id \in DOMAIN clauses }
     IN IF ids # {}
        THEN calls' = Append(callers, [top EXCEPT !.cur = least(ids)])
                        \o << Call("visitClause", least(ids), FALSE, "entry") >>
        ELSE calls' = Append(callers,
                        [top EXCEPT !.stage = "variables", !.cur = 0,
                                    !.max = Cardinality(DOMAIN variables)])
  /\ UNCHANGED << source, poolPos, pc, stdout, exitCode, details, input,
                  clauses, variables, currentLiterals >>
  /\ UNCHANGED treeVars

\* the second loop of GraphSolver::finish: the next variable id that is
\* present is visited; after the loop the graph is dumped, finish returns
\* and main returns 0
FinishVariables ==
  /\ running /\ top.op = "finish" /\ top.stage = "variables"
  /\ LET ids == { id \in (top.cur + 1)..top.max : id \in DOMAIN variables }
     IN IF ids # {}
        THEN /\ calls' = Append(callers, [top EXCEPT !.cur = least(ids)])
                  \o << Call("visitVariable", least(ids), FALSE, "entry") >>
             /\ UNCHANGED << pc, stdout, exitCode, details >>
        ELSE /\ calls' = callers
             /\ stdout' = Append(stdout, printGraph)
             /\ exitCode' = 0
             /\ pc' = "exit"
             /\ UNCHANGED details
  /\ UNCHANGED << source, poolPos, input, clauses, variables,
                  currentLiterals >>
  /\ UNCHANGED treeVars

\* GraphSolver::visitClause up to its call of assignVariable
VisitClause ==
  /\ running /\ top.op = "visitClause" /\ top.stage = "entry"
  /\ IF top.id \notin DOMAIN clauses
     THEN UndefinedBehaviour("Lost clause")
     ELSE IF clauses[top.id] = {}
     THEN /\ NO_SOLUTION("Empty Clause")
          /\ UNCHANGED << clauses, variables, calls >>
     ELSE /\ calls' =
               IF Cardinality(clauses[top.id]) = 1
               THEN LET unit == least(clauses[top.id])
                    IN Append(callers, [top EXCEPT !.stage = "called"])
                         \o << Call("assignVariable", toVariable(unit),
                                    ~isNegated(unit), "entry") >>
               ELSE callers
          /\ UNCHANGED << clauses, variables, pc, stdout, exitCode, details >>
  /\ UNCHANGED << source, poolPos, input, currentLiterals >>
  /\ UNCHANGED treeVars

\* variant: the two sets are tested the other way round
pureValueSwapped(var) ==
  IF var.positiveClauses = {} THEN "true"
  ELSE IF var.negativeClauses = {} THEN "false"
  ELSE "none"

\* the tests of GraphSolver::visitVariable on an unassigned variable: the
\* value a pure variable is given
pureValue(var) ==
  IF var.negativeClauses = {} THEN "true"
  ELSE IF var.positiveClauses = {} THEN "false"
  ELSE "none"

\* GraphSolver::visitVariable up to its call of assignVariable
VisitVariable ==
  /\ running /\ top.op = "visitVariable" /\ top.stage = "entry"
  /\ IF top.id \notin DOMAIN variables
     THEN UndefinedBehaviour("Lost variable")
     ELSE /\ calls' =
               LET var == variables[top.id]
                   called == Append(callers, [top EXCEPT !.stage = "called"])
               IN IF var.assigned \/ pureValue(var) = "none" THEN callers
                  ELSE Append(called,
                              Call("assignVariable", top.id,
                                   pureValue(var) = "true", "entry"))
          /\ UNCHANGED << clauses, variables, pc, stdout, exitCode, details >>
  /\ UNCHANGED << source, poolPos, input, currentLiterals >>
  /\ UNCHANGED treeVars

\* visitClause or visitVariable returns after its call of assignVariable
VisitReturns ==
  /\ running /\ top.op \in {"visitClause", "visitVariable"}
  /\ top.stage = "called"
  /\ calls' = callers
  /\ UNCHANGED << source, poolPos, pc, stdout, exitCode, details, input,
                  clauses, variables, currentLiterals >>
  /\ UNCHANGED treeVars

\* GraphSolver::assignVariable up to its first loop. NO_SOLUTION expands to
\* three statements and the if of line 908 guards the first of them only:
\* the verdict is written and the process exits whenever the variable is
\* already assigned.
AssignVariable ==
  /\ running /\ top.op = "assignVariable" /\ top.stage = "entry"
  /\ IF top.id \notin DOMAIN variables
     THEN UndefinedBehaviour("Lost variable")
     ELSE IF variables[top.id].assigned
     THEN /\ IF top.value # variables[top.id].value
             THEN NO_SOLUTION("Conflicting assignment")
             ELSE NO_SOLUTION(details)
          /\ UNCHANGED << clauses, variables, calls >>
     ELSE /\ variables' = [variables EXCEPT ![top.id].assigned = TRUE,
                                            ![top.id].value = top.value]
          /\ calls' = Append(callers, [top EXCEPT !.stage = "positive"])
          /\ UNCHANGED << clauses, pc, stdout, exitCode, details >>
  /\ UNCHANGED << source, poolPos, input, currentLiterals >>
  /\ UNCHANGED treeVars

\* one round of a loop of GraphSolver::assignVariable: the range-for advances
\* over the live set, the literal is removed from the clause and the clause
\* is removed or visited
AssignVariableLoop ==
  /\ running /\ top.op = "assignVariable"
  /\ top.stage \in {"positive", "negative"}
  /\ LET var == variables[top.id]
         S == IF top.stage = "positive" THEN var.positiveClauses
              ELSE var.negativeClauses
         lit == toLiteral(top.id, top.stage = "negative")
         rest == after(S, top.cur)
     IN IF top.cur # 0 /\ top.cur \notin S
        THEN UndefinedBehaviour("iterator of an erased clause id")
        ELSE IF rest = {}
        THEN /\ calls' = IF top.stage = "positive"
                         THEN Append(callers, [top EXCEPT !.stage = "negative",
                                                          !.cur = 0])
                         ELSE callers
             /\ UNCHANGED << clauses, variables, pc, stdout, exitCode,
                             details >>
        ELSE IF least(rest) \notin DOMAIN clauses
        THEN UndefinedBehaviour("Lost clause")
        ELSE /\ clauses' = removeFromClause(clauses, least(rest), lit)
             /\ calls' = Append(callers, [top EXCEPT !.cur = least(rest)])
                  \o << Call(removeOrVisit(top.stage, top.value),
                             least(rest), FALSE, "entry") >>
             /\ UNCHANGED << variables, pc, stdout, exitCode, details >>
  /\ UNCHANGED << source, poolPos, input, currentLiterals >>
  /\ UNCHANGED treeVars

\* one round of the loop of GraphSolver::removeClause, or its end: the
\* range-for advances over the live literals of the clause, the clause id is
\* removed from the variable and the variable is visited; after the loop the
\* clause is erased, and the solution is found when no clause is left
RemoveClause ==
  /\ running /\ top.op = "removeClause"
  /\ IF top.id \notin DOMAIN clauses
     THEN UndefinedBehaviour(IF top.stage = "entry" THEN "Lost clause"
                             ELSE "iterator of an erased clause")
     ELSE LET literals == clauses[top.id]
              rest == IF top.stage = "entry" THEN literals
                      ELSE after(literals, top.cur)
          IN IF top.stage = "loop" /\ top.cur \notin literals
             THEN UndefinedBehaviour("iterator of an erased literal")
             ELSE IF rest = {}
             THEN /\ clauses' = [c \in DOMAIN clauses \ {top.id} |->
                                   clauses[c]]
                  /\ calls' = callers
                  /\ IF DOMAIN clauses = {top.id}
                     THEN GraphSolutionFound
                     ELSE UNCHANGED << pc, stdout, exitCode, details >>
                  /\ UNCHANGED variables
             ELSE IF toVariable(least(rest)) \notin DOMAIN variables
             THEN UndefinedBehaviour("Lost variable")
             ELSE /\ variables' =
                       removeFromVariable(variables, least(rest), top.id)
                  /\ calls' = Append(callers, [top EXCEPT !.stage = "loop",
                                                         !.cur = least(rest)])
                       \o << Call("visitVariable", toVariable(least(rest)),
                                  FALSE, "entry") >>
                  /\ UNCHANGED << clauses, pc, stdout, exitCode, details >>
  /\ UNCHANGED << source, poolPos, input, currentLiterals >>
  /\ UNCHANGED treeVars

\* a client of the class calls removeClause between two calls of addLiteral
CallRemoveClause(id) ==
  /\ pc = "build" /\ calls = <<>>
  /\ currentLiterals = {}
  /\ id \in DOMAIN clauses
  /\ calls' = << Call("removeClause", id, FALSE, "entry") >>
  /\ UNCHANGED << source, poolPos, pc, stdout, exitCode, details, input,
                  clauses, variables, currentLiterals >>
  /\ UNCHANGED treeVars

\* the state before GraphSolver::run(in) reads its input
GraphInit == Init

\* the steps of the GraphSolver that read no further number
GraphProceed ==
  \/ GraphFinish
  \/ FinishClauses
  \/ FinishVariables
  \/ VisitClause
  \/ VisitVariable
  \/ VisitReturns
  \/ AssignVariable
  \/ AssignVariableLoop
  \/ RemoveClause

graphTokens ==
  (-MaxVar..MaxVar)
    \cup UNION { { GraphPool[i][j] : j \in 1..Len(GraphPool[i]) } :
                   i \in 1..Len(GraphPool) }

GraphNext ==
  \/ \E literal \in graphTokens : GraphAddLiteral(literal)
  \/ UnexpectedCharacter
  \/ UnexpectedEnd
  \/ GraphProceed

\* GraphSolver::run on an input of numbers
GraphSpec == GraphInit /\ [][GraphNext]_vars

\* The input is finite and the process is single-threaded and runs to
\* completion: the parser reaches the end of its input, and every call that
\* has begun goes on until it returns or the process exits.
FairGraphSpec == GraphSpec /\ WF_vars(GraphProceed)

\* the GraphSolver driven by a client that adds and removes clauses
GraphApiNext ==
  \/ \E literal \in graphTokens : GraphAddLiteral(literal)
  \/ \E id \in 1..MaxLits : CallRemoveClause(id)
  \/ GraphProceed

GraphApiSpec == GraphInit /\ [][GraphApiNext]_vars

\* ------------------------------------------------------------------- claims
\* C1 Soundness: whenever the SAT verdict is written, every clause of the
\* input (unit clauses included) has a literal that the printed line lists as
\* true.
Soundness ==
  \A k \in 1..Len(stdout) :
    stdout[k].kind = "SAT" =>
      \A i \in 1..Len(phi) :
        \E l \in literalsOf(phi[i]) : l \in literalsOf(stdout[k].line)

\* C2 Completeness: a finished run writes SAT if the input is satisfiable and
\* UNSAT if it is not.
Completeness ==
  verdict => (stdout[1].kind = "SAT" <=> satisfiable(phi))

InputErrorExitCode == (pc = "exit" /\ inputError) => exitCode \notin {0, 1}

\* the input holds the unit clauses (l) and (-l)
complementaryUnits(formula) ==
  \E i, j \in 1..Len(formula) :
    /\ Len(formula[i]) = 1 /\ Len(formula[j]) = 1
    /\ formula[i][1] = -formula[j][1]

\* C6 Once the input holds two complementary unit clauses the run has ended
\* with UNSAT; a unit clause that repeats an earlier unit clause is accepted
\* and changes neither the assignment nor the stored clauses.
ComplementaryUnits ==
  [][ /\ complementaryUnits(phi') =>
           /\ pc' = "exit" /\ exitCode' = 1
           /\ stdout' = << [kind |-> "UNSAT", line |-> <<>>] >>
      /\ ( /\ Len(m_current) = 1
           /\ \E i \in 1..Len(phi) : phi[i] = m_current
           /\ ~complementaryUnits(phi)
           /\ phi' = Append(phi, m_current) ) =>
           /\ pc' = "build" /\ stdout' = <<>>
           /\ m_assignments' = m_assignments
           /\ nodeMemory' = nodeMemory ]_vars

\* a unit clause, the same unit clause again, then its complement
ComplementaryUnitsWitness ==
  /\ pc = "exit" /\ complementaryUnits(phi)
  /\ \E i, j \in 1..Len(phi) : i < j /\ Len(phi[i]) = 1 /\ phi[i] = phi[j]

\* Simplifier::run has returned
simplifierReturned ==
  \/ pc = "simplifyTree"
  \/ phase = "DPLL"
  \/ pc = "exit" /\ phase = "Simplify"

\* C7 When Simplifier::run returns without a verdict no clause of the tree is
\* unit under the assignment; when the chain of unit implications forces
\* every variable without a conflict, Simplifier::run returns SAT and the line
\* lists exactly the forced literals.
UnitFixpoint ==
  /\ pc = "simplifyTree" => \A i \in 1..Len(root) : ~isUnit(root[i])
  /\ (pc = "step" /\ stack = <<>> /\ trail = <<>>) =>
       \A i \in 1..Len(root) : ~isUnit(root[i])
  /\ (simplifierReturned /\ chainForcesAll(phi)) =>
       /\ pc = "exit" /\ phase = "Simplify"
       /\ Len(stdout) = 1 /\ stdout[1].kind = "SAT"
       /\ literalsOf(stdout[1].line) = unitClosure(phi, {})

\* a chain that takes two rounds: -3 forces 2 in (2 3), which forces 1 in the
\* earlier clause (1 -2)
UnitFixpointWitness ==
  /\ phi = << <<-3>>, <<1, -2>>, <<2, 3>> >>
  /\ verdict /\ stdout[1].kind = "SAT" /\ phase = "Simplify"

\* C8 The SAT line lists no variable twice, lists a variable as positive only
\* if it is assigned true and as negative only if it is assigned false.
ModelLine ==
  \A k \in 1..Len(stdout) :
    stdout[k].kind = "SAT" =>
      LET line == stdout[k].line
      IN \A l \in literalsOf(line) :
           /\ Cardinality({ j \in 1..Len(line) :
                              line[j] # 0 /\ toVariable(line[j]) = toVariable(l) }) = 1
           /\ toVariable(l) \in assignedVars
           /\ l > 0 <=> toVariable(l) \in trueVars

\* a line with a negative literal, printed while a smaller variable id is
\* unassigned
ModelLineWitness ==
  /\ verdict /\ stdout[1].kind = "SAT"
  /\ \E l \in literalsOf(stdout[1].line) :
       l < 0 /\ \E v \in 1..(-l) : v \notin assignedVars

\* C9 No stored clause holds a variable together with its negation.
NoTautologyStored ==
  /\ \A i \in 1..Len(nodeMemory) : ~isTautology(nodeMemory[i])
  /\ \A i \in 1..Len(root) : ~isTautology(root[i])

\* C10 Tautology absorption: the verdict on an input with a tautological
\* clause is the verdict on the input without that clause, and a line written
\* for the input satisfies the input without that clause.
TautologyAbsorption ==
  verdict =>
    \A i \in 1..Len(phi) :
      isTautology(phi[i]) =>
        /\ run(removeAt(phi, i)).kind = stdout[1].kind
        /\ stdout[1].kind = "SAT" =>
             \A c \in 1..Len(phi) :
               c # i => literalsOf(phi[c]) \cap literalsOf(stdout[1].line) # {}

\* the sequence without the number n
RECURSIVE without(_, _)
without(clause, n) ==
  IF clause = <<>> THEN <<>>
  ELSE (IF Head(clause) = n THEN <<>> ELSE << Head(clause) >>)
       \o without(Tail(clause), n)

\* the formula with literal l replaced by true: clauses that hold l are
\* removed, -l is removed from the others
RECURSIVE assume(_, _)
assume(formula, l) ==
  IF formula = <<>> THEN <<>>
  ELSE (IF l \in literalsOf(Head(formula)) THEN <<>>
        ELSE << without(Head(formula), -l) >>) \o assume(Tail(formula), l)

\* C11 Unit-clause equivalence: the verdict on an input that holds the unit
\* clause (l) is the verdict on the rest of the input with l replaced by true.
UnitClauseEquivalence ==
  verdict =>
    \A i \in 1..Len(phi) :
      Len(phi[i]) = 1 =>
        run(assume(removeAt(phi, i), phi[i][1])).kind = stdout[1].kind

\* the same equivalence for the inputs where replacing l by true leaves no
\* empty clause
UnitClauseEquivalenceNonEmpty ==
  verdict =>
    \A i \in 1..Len(phi) :
      ( /\ Len(phi[i]) = 1
        /\ \A k \in 1..Len(phi) :
             k # i => without(phi[k], -phi[i][1]) # <<>> ) =>
        run(assume(removeAt(phi, i), phi[i][1])).kind = stdout[1].kind

\* the variables that have an entry on the trail
trailVariables == { toVariable(trail[k].assignment) : k \in 1..Len(trail) }

\* no variable has two entries on the trail
trailDistinct ==
  \A j, k \in 1..Len(trail) :
    toVariable(trail[j].assignment) = toVariable(trail[k].assignment) => j = k

\* C14 as stated (T3): during the search the assigned variables are the
\* variables on the trail, each with exactly one entry.
TrailT3 ==
  phase = "DPLL" => (assignedVars = trailVariables /\ trailDistinct)

\* C14 as amended: during the search the assigned variables of the simplified
\* tree are the variables on the trail, each with exactly one entry, and every
\* variable on the trail is assigned; the variables assigned before the
\* search have no entry.
TrailCoversSearch ==
  phase = "DPLL" =>
    /\ trailDistinct
    /\ trailVariables \subseteq assignedVars
    /\ assignedVars \cap variablesOf(root) = trailVariables

\* the search has backtracked and holds the negated decision, next to a
\* variable that was assigned before the search
TrailCoversSearchWitness ==
  /\ phase = "DPLL"
  /\ \E k \in 1..Len(trail) : trail[k].assignment < 0 /\ ~trail[k].unit
  /\ assignedVars \ trailVariables # {}

\* s is a prefix of t
isPrefix(s, t) == Len(s) <= Len(t) /\ SubSeq(t, 1, Len(s)) = s

\* C15 (T1): every step either pushes entries on top of the trail, for
\* variables that were unassigned, in the order of the assignments, or pops
\* entries from the top; a variable of the tree is unassigned only when its
\* entry is popped, and no entry below the top is removed or reordered.
TrailT1 ==
  [][ phase = "DPLL" =>
        /\ isPrefix(trail, trail') \/ isPrefix(trail', trail)
        /\ \A k \in (Len(trail) + 1)..Len(trail') :
             /\ toVariable(trail'[k].assignment) \notin assignedVars
             /\ \A j \in 1..(k - 1) :
                  toVariable(trail'[j].assignment)
                    # toVariable(trail'[k].assignment)
        /\ \A v \in assignedVars \ assignedVars' :
             \E k \in (Len(trail') + 1)..Len(trail) :
               toVariable(trail[k].assignment) = v ]_vars

\* a decision and the entries propagated from it have just been popped
TrailT1Witness ==
  /\ phase = "DPLL" /\ pc = "decide"
  /\ stack[Len(stack)].negate
  /\ trail # <<>>
  /\ Len(stack) >= 2

\* every clause id the graph mentions
clauseIDs ==
  DOMAIN clauses
    \cup UNION { variables[v].positiveClauses \cup variables[v].negativeClauses :
                   v \in DOMAIN variables }

\* I1: a variable lists a clause id under a polarity exactly if the clause
\* exists and holds the variable's literal of that polarity
bipartite ==
  /\ \A c \in DOMAIN clauses : \A l \in clauses[c] :
       toVariable(l) \in DOMAIN variables
  /\ \A v \in DOMAIN variables : \A c \in clauseIDs :
       /\ c \in variables[v].positiveClauses <=>
            ( /\ c \in DOMAIN clauses
              /\ \E l \in clauses[c] : toVariable(l) = v /\ ~isNegated(l) )
       /\ c \in variables[v].negativeClauses <=>
            ( /\ c \in DOMAIN clauses
              /\ \E l \in clauses[c] : toVariable(l) = v /\ isNegated(l) )

\* C12 Bipartite consistency (I1): whenever no operation of the graph is in
\* progress, every variable lists exactly the existing clauses that hold its
\* literal, by polarity; no variable keeps the id of a removed clause.
BipartiteConsistency == calls = <<>> => bipartite

\* I1 while the input is read: it holds after every addLiteral
BipartiteWhileParsing == (pc = "build" /\ calls = <<>>) => bipartite

\* C13 Clause ids are never reused: a step of addLiteral that adds a clause
\* leaves every existing clause as it was and stores the new clause under
\* one new id that the graph does not mention, whatever additions and
\* removals came before.
ClauseIdsFresh ==
  [][ (input' # input /\ clauses' # clauses) =>
        /\ \A c \in DOMAIN clauses :
             c \in DOMAIN clauses' /\ clauses'[c] = clauses[c]
        /\ \E c \in DOMAIN clauses' \ clauseIDs :
             DOMAIN clauses' = DOMAIN clauses \cup {c} ]_vars

\* assignVariable(v, value) returns to its caller in this step
assignVariableReturns ==
  /\ calls # <<>>
  /\ top.op = "assignVariable" /\ top.stage = "negative"
  /\ calls' = callers
  /\ pc' = pc

\* the clause ids variable v lists under the literal the value makes true
madeTrue(v, value) ==
  IF value THEN variables[v].positiveClauses ELSE variables[v].negativeClauses

\* the clause ids variable v lists under the literal the value makes false
madeFalse(v, value) ==
  IF value THEN variables[v].negativeClauses ELSE variables[v].positiveClauses

surviving ==
  { c \in DOMAIN clauses :
      \A k \in 1..Len(calls) : calls[k].op = "removeClause" => calls[k].id # c }

visitVariableDecides ==
  /\ calls # <<>>
  /\ top.op = "visitVariable" /\ top.stage = "entry"
  /\ calls' # calls
  /\ pc' = pc

\* the step calls assignVariable with this value
callsAssignVariable(value) ==
  /\ Len(calls') = Len(calls) + 1
  /\ calls'[Len(calls')].op = "assignVariable"
  /\ calls'[Len(calls')].value = value

\* a clause of S holds the literal of v of this polarity
occurs(v, negated, S) ==
  \E c \in S : \E l \in clauses[c] : toVariable(l) = v /\ isNegated(l) = negated

\* the step writes the UNSAT verdict
writesUNSAT ==
  /\ Len(stdout') = Len(stdout) + 1
  /\ stdout'[Len(stdout')].kind = "UNSAT"

\* the formula the input holds so far is satisfiable
inputSatisfiable == satisfiable(dimacs(input, <<>>))

\* Rule P over the clauses of S, and its consequence
ruleP(S) ==
  /\ visitVariableDecides =>
       /\ callsAssignVariable(TRUE) =>
            ~variables[top.id].assigned /\ ~occurs(top.id, TRUE, S)
       /\ callsAssignVariable(FALSE) =>
            ~variables[top.id].assigned /\ ~occurs(top.id, FALSE, S)
       /\ ( \/ variables[top.id].assigned
            \/ occurs(top.id, TRUE, S) /\ occurs(top.id, FALSE, S) ) =>
            calls' = callers /\ variables' = variables
  /\ ( /\ writesUNSAT
       /\ \E k \in 1..Len(calls) : calls[k].op = "visitVariable" ) =>
       ~inputSatisfiable

\* C17 as stated (Rule P): visitVariable assigns an unassigned variable true
\* only when no clause of the graph holds its negative literal and false only
\* when none holds its positive literal; a variable that occurs in both
\* polarities or is assigned is left unchanged; no UNSAT verdict is written
\* under a visitVariable for a satisfiable input.
RulePAsStated == [][ ruleP(DOMAIN clauses) ]_vars

\* C17 as amended: the same over the clauses that no removeClause still
\* running is about to erase.
RuleP == [][ ruleP(surviving) ]_vars

\* visitVariable has found a pure variable during the removal of a clause
\* and has called assignVariable for it, while other clauses survive
RulePWitness ==
  /\ pc = "finish" /\ Len(calls) >= 3
  /\ top.op = "assignVariable" /\ top.stage = "entry"
  /\ calls[Len(calls) - 1].op = "visitVariable"
  /\ calls[Len(calls) - 2].op = "removeClause"
  /\ surviving # {}

\* C18 The pass visits every clause and then every unassigned variable: when
\* the first loop of finish ends, its range has covered every clause id of
\* the graph, and when finish returns, the range of its second loop has
\* covered every unassigned variable with an id from 1 on, also when the ids
\* are sparse.
FinishVisitsAll ==
  [][ (calls # <<>> /\ top.op = "finish" /\ Len(calls') <= 1 /\ pc' # "build") =>
        /\ (top.stage = "clauses" /\ calls' # calls) =>
             \A c \in DOMAIN clauses : c <= top.max
        /\ (top.stage = "variables" /\ calls' = <<>>) =>
             \A v \in DOMAIN variables :
               (v >= 1 /\ ~variables[v].assigned) => v <= top.max ]_vars

\* the first loop of finish alone: its range covers every clause id
FinishVisitsClauses ==
  [][ ( /\ calls # <<>> /\ top.op = "finish" /\ top.stage = "clauses"
        /\ Len(calls') = 1 /\ calls' # calls ) =>
        \A c \in DOMAIN clauses : c <= top.max ]_vars

\* undefined behaviour has occurred
undefined ==
  details \in {"Lost clause", "Lost variable", "iterator of an erased clause",
               "iterator of an erased clause id",
               "iterator of an erased literal"}

\* C19 Re-entrancy safety: no call looks up a clause or a variable that is
\* absent, no range-for stands on an element or in a clause that an inner
\* call has erased, and no clause is under removal twice.
ReentrancySafe ==
  /\ ~undefined
  /\ \A j, k \in 1..Len(calls) :
       ( /\ calls[j].op = "removeClause" /\ calls[k].op = "removeClause"
         /\ calls[j].id = calls[k].id ) => j = k

lineSatisfies(line) ==
  LET formula == dimacs(input, <<>>)
  IN \A i \in 1..Len(formula) :
       \E l \in literalsOf(formula[i]) : l \in literalsOf(line)

\* C21 Simplifier signals: UNSAT is written only for an empty clause or a
\* conflicting assignment and only if the formula read is unsatisfiable; SAT
\* is written only when no clause is left, and its line satisfies every
\* clause read.
GraphSignals ==
  \A k \in 1..Len(stdout) :
    /\ stdout[k].kind = "UNSAT" =>
         /\ details \in {"Empty Clause", "Conflicting assignment"}
         /\ ~inputSatisfiable
    /\ stdout[k].kind = "SAT" =>
         /\ DOMAIN clauses = {}
         /\ lineSatisfies(stdout[k].line)

\* no 0 of the input stands alone, where addLiteral stores it as a literal
noEmptyClause ==
  \A i \in 1..Len(dimacs(input, <<>>)) : dimacs(input, <<>>)[i] # <<>>

\* the SAT signal alone, for the runs without undefined behaviour and
\* without an empty clause in the input
GraphSATSound ==
  \A k \in 1..Len(stdout) :
    (stdout[k].kind = "SAT" /\ ~undefined /\ noEmptyClause) =>
      DOMAIN clauses = {} /\ lineSatisfies(stdout[k].line)

\* the UNSAT signal alone, for the runs in which the verdict macro names its
\* cause
GraphUNSATSound ==
  \A k \in 1..Len(stdout) :
    ( /\ stdout[k].kind = "UNSAT"
      /\ details \in {"Empty Clause", "Conflicting assignment"}
      /\ noEmptyClause ) => ~inputSatisfiable

\* assignVariable is entered for a variable that is already assigned
assignsAgain ==
  /\ running /\ top.op = "assignVariable" /\ top.stage = "entry"
  /\ top.id \in DOMAIN variables
  /\ variables[top.id].assigned

\* C22 Assigning an assigned variable: with the same value nothing changes
\* and the solver goes on without a verdict; with the opposite value UNSAT
\* is written and the stored value is kept.
AssignAgain ==
  [][ assignsAgain =>
        /\ variables' = variables
        /\ clauses' = clauses
        /\ IF top.value = variables[top.id].value
           THEN stdout' = stdout /\ exitCode' = exitCode /\ pc' = pc
           ELSE /\ stdout' = Append(stdout, [kind |-> "UNSAT", line |-> <<>>])
                /\ exitCode' = 1 ]_vars

\* the stores alone: no repeated assignment changes the assignment, the
\* clauses or the clause sets of the variables
AssignAgainKeepsStores ==
  [][ assignsAgain => variables' = variables /\ clauses' = clauses ]_vars

\* the same in ContextBuilder::addConjunction: a unit clause whose literal
\* is already true changes neither the assignments nor the clauses
RepeatedUnitClause ==
  [][ ( /\ pc = "build" /\ Len(m_current) = 1
        /\ getLiteralAssignment(m_assignments, m_current[1])
             = Assignment(TRUE, TRUE)
        /\ m_current' = <<>> ) =>
      ( m_assignments' = m_assignments /\ nodeMemory' = nodeMemory
        /\ stdout' = stdout /\ pc' = pc ) ]_vars

\* the state of a clause of the search under the assignment m
falseIn(m, clause) ==
  /\ literalsOf(clause) # {}
  /\ \A l \in literalsOf(clause) :
       getLiteralAssignment(m, l).assigned /\ ~getLiteralAssignment(m, l).value

trueIn(m, clause) ==
  \E l \in literalsOf(clause) :
    getLiteralAssignment(m, l).assigned /\ getLiteralAssignment(m, l).value

\* all literals of the clause but one are false and the remaining one is
\* unassigned
unitIn(m, clause) ==
  \E j \in 1..Len(clause) :
    /\ clause[j] # NO_LITERAL
    /\ ~getLiteralAssignment(m, clause[j]).assigned
    /\ \A k \in 1..Len(clause) :
         (k # j /\ clause[k] # NO_LITERAL) =>
           /\ getLiteralAssignment(m, clause[k]).assigned
           /\ ~getLiteralAssignment(m, clause[k]).value

\* some clause of the tree is false under m
conflictIn(m) == \E i \in 1..Len(root) : falseIn(m, root[i])

\* every model of the formula read satisfies the clause
entailed(clause) ==
  \A T \in SUBSET variablesOf(phi) :
    models(T, phi) => \E l \in literalsOf(clause) : holds(l, T)

\* C23 Learned clause: the decision whose evaluation ends in a conflict adds
\* a clause to the tree that follows from the formula and is false under the
\* conflicting assignment.
LearnsOnConflict ==
  [][ (pc = "decide" /\ conflictIn(m_assignments')) =>
        \E i \in 1..Len(root') :
          /\ i > Len(root) \/ root'[i] # root[i]
          /\ entailed(root'[i])
          /\ falseIn(m_assignments', root'[i]) ]_vars

\* the clauses of the tree are those left by the simplifier, all through the
\* search
SearchKeepsClauses == [][ phase = "DPLL" => root' = root ]_vars

\* every clause of the tree is true under m
allTrueIn(m) == \A i \in 1..Len(root) : trueIn(m, root[i])

\* DPLL::step returns its answer for a state without unassigned variables
answersNotSatisfied ==
  pc = "step" /\ pc' = "returned" /\ ret' = Assignment(TRUE, FALSE)

\* C24 All assigned and no clause false: DPLL::step does not answer "not
\* satisfied" in a state whose assignment makes every clause true.
SatisfiedIsReported ==
  [][ (root # <<>> /\ allTrueIn(m_assignments)) => ~answersNotSatisfied ]_vars

\* some clause of the tree is unit under m
unitLeftIn(m) == \E i \in 1..Len(root) : unitIn(m, root[i])

\* C25 Propagation to a fixpoint: DPLL::step makes a decision only in a
\* state in which no clause is unit.
DecidesAtFixpoint == pc = "decide" => ~unitLeftIn(m_assignments)

\* C26 Conflict ends propagation: no decision is made on top of an
\* assignment under which a clause is false.
NoDecisionOnConflict == pc = "decide" => ~conflictIn(m_assignments)

\* the assignment m after the trail entries tr[from..to] have been made
RECURSIVE assignedThrough(_, _, _, _)
assignedThrough(m, tr, from, to) ==
  IF from > to THEN m
  ELSE assignedThrough(assignLiteral(m, tr[from].assignment, TRUE), tr,
                       from + 1, to)

\* literal is the single unassigned literal of the clause and every other
\* literal of the clause is false under m
unitFor(m, clause, literal) ==
  \E j \in 1..Len(clause) :
    /\ clause[j] = literal
    /\ ~getLiteralAssignment(m, literal).assigned
    /\ \A k \in 1..Len(clause) :
         (k # j /\ clause[k] # NO_LITERAL) =>
           /\ getLiteralAssignment(m, clause[k]).assigned
           /\ ~getLiteralAssignment(m, clause[k]).value

\* C27 Unit rule in the search: every literal forced by the propagation
\* that follows a decision was, when it was forced, the single unassigned
\* literal of a clause whose other literals were false; it is made true and
\* it is on the trail as a propagation step.
UnitRule ==
  [][ pc = "decide" =>
        /\ Len(trail') > Len(trail)
        /\ ~trail'[Len(trail) + 1].unit
        /\ \A k \in (Len(trail) + 2)..Len(trail') :
             /\ trail'[k].unit
             /\ getLiteralAssignment(m_assignments', trail'[k].assignment)
                  = Assignment(TRUE, TRUE)
             /\ \E i \in 1..Len(root) :
                  unitFor(assignedThrough(m_assignments, trail',
                                          Len(trail) + 1, k - 1),
                          root[i], trail'[k].assignment) ]_vars

\* a decision was followed by two forced assignments
UnitRuleWitness ==
  \E k \in 1..Len(trail) :
    /\ k + 2 <= Len(trail)
    /\ ~trail[k].unit /\ trail[k + 1].unit /\ trail[k + 2].unit

\* the three truth values of a clause under m
clauseValue(m, clause) ==
  IF trueIn(m, clause) THEN "true"
  ELSE IF \A l \in literalsOf(clause) : getLiteralAssignment(m, l).assigned
       THEN "false" ELSE "unassigned"

\* the three truth values of a conjunction of clauses under m
conjunctionValue(m, formula) ==
  IF \E i \in 1..Len(formula) : clauseValue(m, formula[i]) = "false"
  THEN "false"
  ELSE IF \A i \in 1..Len(formula) : clauseValue(m, formula[i]) = "true"
       THEN "true" ELSE "unassigned"

\* the truth value an Assignment stands for
truthValue(assignment) ==
  IF ~assignment.assigned THEN "unassigned"
  ELSE IF assignment.value THEN "true" ELSE "false"

\* ------------------------------- Node::evaluate as a function of its inputs
\* the literals of the variables 1..MaxVar
Literals == (-MaxVar..MaxVar) \ {NO_LITERAL}

\* the LITERAL_OR nodes with n literals, in every order of the literals
nodesOf(n) == [1..n -> Literals]

\* the trees of no, one or two LITERAL_OR nodes with at most MaxLits
\* literals in all
Trees ==
  {<<>>}
  \cup UNION { { << c >> : c \in nodesOf(k) } : k \in 1..MaxLits }
  \cup UNION { { << c, d >> : c \in nodesOf(kj[1]), d \in nodesOf(kj[2]) } :
               kj \in { p \in (1..MaxLits) \X (1..MaxLits) :
                          p[1] + p[2] <= MaxLits } }

\* the contents of LiteralAssignment::m_assignments for MaxVar variables: an
\* assigned flag and a value per variable, the value of an unassigned
\* variable being whatever was stored last
Assignments == [1..(2 * MaxVar) -> BOOLEAN]

\* a tree and an assignment, before evaluate is called on the root
EvaluateInit ==
  /\ source = "stream"
  /\ poolPos = 0
  /\ phi = <<>>
  /\ m_current = <<>>
  /\ nodeMemory = <<>>
  /\ root \in Trees
  /\ m_assignments \in Assignments
  /\ trail = <<>>
  /\ stack = <<>>
  /\ ret = Assignment(FALSE, FALSE)
  /\ pc = "evaluate"
  /\ phase = "Evaluate"
  /\ stdout = <<>>
  /\ exitCode = -1
  /\ details = ""
  /\ input = <<>>
  /\ clauses = << >>
  /\ variables = << >>
  /\ currentLiterals = {}
  /\ calls = <<>>

\* root->evaluate(assignments) with the default callback, which propagates
\* nothing
Evaluate ==
  /\ pc = "evaluate"
  /\ ret' = evaluate(root, m_assignments, trail, "none").assignment
  /\ pc' = "evaluated"
  /\ UNCHANGED << source, poolPos, phi, m_current, nodeMemory, root,
                  m_assignments, trail, stack, phase, stdout, exitCode,
                  details >>
  /\ UNCHANGED graphVars

EvaluateNext == Evaluate

EvaluateSpec == EvaluateInit /\ [][EvaluateNext]_vars

\* C28 Three-valued evaluation: Node::evaluate without unit propagation
\* gives a clause, whatever the order of its literals, the value true iff a
\* literal is true, false iff every literal is false and unassigned
\* otherwise; it gives the conjunction the value false iff some clause is
\* false and true iff every clause is true.
ThreeValued ==
  pc = "evaluated" =>
    /\ \A i \in 1..Len(root) :
         truthValue(evaluateClause(root[i], m_assignments).assignment)
           = clauseValue(m_assignments, root[i])
    /\ truthValue(ret) = conjunctionValue(m_assignments, root)

\* evaluate has answered false for a conjunction whose false clause comes
\* after an undetermined one, the undetermined clause having its unassigned
\* literal before a false one
ThreeValuedWitness ==
  /\ pc = "evaluated" /\ ret = Assignment(TRUE, FALSE)
  /\ \E i, j \in 1..Len(root) :
       /\ i < j
       /\ Len(root[i]) >= 2
       /\ ~getLiteralAssignment(m_assignments, root[i][1]).assigned
       /\ getLiteralAssignment(m_assignments, root[i][2]) = Assignment(TRUE, FALSE)
       /\ clauseValue(m_assignments, root[i]) = "unassigned"
       /\ clauseValue(m_assignments, root[j]) = "false"

\* the same values in the states of the solver itself
ThreeValuedInRuns ==
  /\ \A i \in 1..Len(root) :
       truthValue(evaluateClause(root[i], m_assignments).assignment)
         = clauseValue(m_assignments, root[i])
  /\ truthValue(evaluate(root, m_assignments, trail, "none").assignment)
       = conjunctionValue(m_assignments, root)

\* the position of the most recent decision on the trail, 0 if there is none
lastDecision ==
  IF \A k \in 1..Len(trail) : trail[k].unit THEN 0
  ELSE CHOOSE k \in 1..Len(trail) :
         ~trail[k].unit /\ \A j \in (k + 1)..Len(trail) : trail[j].unit

\* the variables of the topmost decision level
topLevel == { toVariable(trail[k].assignment) : k \in lastDecision..Len(trail) }

\* C29 Decision levels (T2): unwind removes the most recent decision and the
\* propagation steps above it and unassigns their variables; the entries
\* below the decision and the assignment of every other variable stay as
\* they are.
UnwindTopLevel ==
  [][ pc = "unwind" =>
        /\ lastDecision > 0
        /\ trail' = SubSeq(trail, 1, lastDecision - 1)
        /\ Len(m_assignments') = Len(m_assignments)
        /\ \A v \in 1..getMaxVariable(m_assignments) :
             IF v \in topLevel
             THEN ~getVariableAssignment(m_assignments', v).assigned
             ELSE getVariableAssignment(m_assignments', v)
                    = getVariableAssignment(m_assignments, v) ]_vars

\* unwind is about to remove the topmost level while a lower level with a
\* decision and a propagation step is on the trail
UnwindTopLevelWitness ==
  /\ pc = "unwind"
  /\ lastDecision > 2
  /\ \E k \in 1..(lastDecision - 1) : trail[k].unit

\* m and n give every variable the same state: unassigned, true or false
sameAssignment(m, n) ==
  \A v \in 1..(getMaxVariable(m) + getMaxVariable(n)) :
    /\ getVariableAssignment(m, v).assigned = getVariableAssignment(n, v).assigned
    /\ getVariableAssignment(m, v).assigned =>
         getVariableAssignment(m, v).value = getVariableAssignment(n, v).value

\* C30 Backtracking restores the state: a call of DPLL::step that returns
\* without the SAT result leaves the trail and the assignment of every
\* variable as they were when it was entered, and every variable the loop
\* tries is unassigned when it is tried.
BacktrackingRestores ==
  /\ pc = "step" =>
       \A r \in { step(root, m_assignments, trail) } :
         ~(r.result.assigned /\ r.result.value) =>
           r.trail = trail /\ sameAssignment(r.m, m_assignments)
  /\ pc = "decide" =>
       ~getVariableAssignment(m_assignments,
            stack[Len(stack)].variables[stack[Len(stack)].i]).assigned

\* a call of DPLL::step below a decision is entered that tries its variables
\* and returns without the SAT result
BacktrackingRestoresWitness ==
  /\ pc = "step" /\ trail # <<>>
  /\ getUnassignedVariables(root, m_assignments) # <<>>
  /\ step(root, m_assignments, trail).result = Assignment(FALSE, FALSE)

\* the frame of the running call of DPLL::step
frame == stack[Len(stack)]

\* C31 True first: every decision assigns the value the loop of DPLL::step
\* stands at, and the loop stands at the value false only after the value
\* true of the same variable was decided at the same point, its branch
\* returned without SAT and was unwound.
TrueFirst ==
  [][ /\ pc = "decide" =>
           /\ Len(trail') > Len(trail)
           /\ trail'[Len(trail) + 1].assignment
                = toLiteral(frame.variables[frame.i], frame.negate)
      /\ (pc' = "decide" /\ stack'[Len(stack')].negate) =>
           /\ pc = "unwind"
           /\ Len(stack') = Len(stack)
           /\ ~frame.negate
           /\ stack'[Len(stack')].i = frame.i
           /\ ~(ret.assigned /\ ret.value)
           /\ lastDecision > 0
           /\ trail[lastDecision].assignment = frame.variables[frame.i]
           /\ trail' = SubSeq(trail, 1, lastDecision - 1)
      /\ (pc' = "decide" /\ pc # "unwind") =>
           ~stack'[Len(stack')].negate ]_vars

\* the value false is about to be decided inside a branch of another
\* decision
TrueFirstWitness ==
  pc = "decide" /\ frame.negate /\ Len(stack) >= 2 /\ trail # <<>>

\* C32 Trail bottom: the bottom entry of a non-empty trail is a decision,
\* unwind is called only with a decision on the trail (so it never pops an
\* empty trail), no variable has two entries on the trail and every variable
\* on the trail is assigned.
TrailBottom ==
  /\ trail # <<>> => ~trail[1].unit
  /\ pc = "unwind" => lastDecision > 0
  /\ trailDistinct
  /\ trailVariables \subseteq assignedVars

\* unwind is about to pop the whole trail, a decision with a propagation
\* step above it
TrailBottomWitness ==
  pc = "unwind" /\ lastDecision = 1 /\ Len(trail) >= 2

\* variant: the earlier addConjunction, which assigns the literal of every
\* unit clause that does not conflict
addConjunctionAssignsEarlier ==
  IF Len(m_current) = 1
     /\ ~( getLiteralAssignment(m_assignments, m_current[1]).assigned
           /\ ~getLiteralAssignment(m_assignments, m_current[1]).value )
  THEN {m_current[1]} ELSE {}

\* the literals ContextBuilder::addConjunction hands to assignLiteral when
\* it is called with the pending literals m_current
addConjunctionAssigns ==
  IF Len(m_current) = 1
     /\ ~getLiteralAssignment(m_assignments, m_current[1]).assigned
  THEN {m_current[1]} ELSE {}

\* the literals Node::evaluate hands to propagateUnit, in the order of the
\* calls, each as a trail step
propagated(children, m) == evaluate(children, m, <<>>, "dpll").trail

\* every literal of the steps tr is unassigned when it is assigned, the
\* assignment being m before the first of them
RECURSIVE assignedOnce(_, _)
assignedOnce(m, tr) ==
  \/ tr = <<>>
  \/ /\ ~getLiteralAssignment(m, tr[1].assignment).assigned
     /\ assignedOnce(assignLiteral(m, tr[1].assignment, TRUE), Tail(tr))

\* every variable of the steps tr is assigned when it is unassigned, the
\* steps being popped from the back
RECURSIVE unassignedOnce(_, _)
unassignedOnce(m, tr) ==
  \/ tr = <<>>
  \/ /\ getLiteralAssignment(m, tr[Len(tr)].assignment).assigned
     /\ unassignedOnce(unassignVariable(m, toVariable(tr[Len(tr)].assignment)),
                       SubSeq(tr, 1, Len(tr) - 1))

\* C33 No double assignment: whatever the parser, the Simplifier and the
\* search do next, assignVariable is called only for an unassigned variable
\* and unassignVariable only for an assigned one.
NoDoubleAssignment ==
  /\ pc = "build" =>
       \A l \in addConjunctionAssigns :
         ~getLiteralAssignment(m_assignments, l).assigned
  /\ pc = "simplify" =>
       assignedOnce(m_assignments, propagated(root, m_assignments))
  /\ pc = "decide" =>
       \A a \in { assign(trail, m_assignments,
                          toLiteral(frame.variables[frame.i], frame.negate),
                          FALSE) } :
         /\ ~getVariableAssignment(m_assignments,
                                   frame.variables[frame.i]).assigned
         /\ assignedOnce(a.m, propagated(root, a.m))
  /\ pc = "unwind" =>
       /\ lastDecision > 0
       /\ unassignedOnce(m_assignments, SubSeq(trail, lastDecision, Len(trail)))

\* the parser has the literal of a unit clause pending that is already true
NoDoubleAssignmentWitness ==
  /\ pc = "build" /\ Len(m_current) = 1
  /\ getLiteralAssignment(m_assignments, m_current[1]) = Assignment(TRUE, TRUE)

\* addConjunctionAssigns names what the parser step stores: the step that
\* ends a unit clause changes the assignments by exactly those literals
AssignsAsStored ==
  [][ (pc = "build" /\ Len(m_current) = 1 /\ m_current' = <<>>) =>
        m_assignments' =
          IF addConjunctionAssigns = {} THEN m_assignments
          ELSE assignLiteral(m_assignments, m_current[1], TRUE) ]_vars

\* --------------------------------------------------------------- BruteForce
\* Node::getVariables: a std::set, iterated ascending
getVariables(children) ==
  ascending(UNION { { toVariable(l) : l \in literalsOf(children[i]) } :
                    i \in 1..Len(children) })

\* the for loop of BruteForce::run from variable i on: the first variable
\* that is not true is set to true, the true ones before it to false
RECURSIVE nextAssignment(_, _, _)
nextAssignment(vs, i, m) ==
  IF i > Len(vs) THEN [m |-> m, done |-> TRUE]
  ELSE IF ~getVariableAssignment(m, vs[i]).assigned
          \/ ~getVariableAssignment(m, vs[i]).value
       THEN [m |-> assignVariable(m, vs[i], TRUE), done |-> FALSE]
       ELSE nextAssignment(vs, i + 1, assignVariable(m, vs[i], FALSE))

\* BruteForce::run; evaluated lists the assignments root->evaluate was
\* called with
RECURSIVE bruteForceRun(_, _, _, _)
bruteForceRun(children, vs, m, evaluated) ==
  LET c == nextAssignment(vs, 1, m)
  IN IF c.done
     THEN [result |-> Assignment(TRUE, FALSE), m |-> c.m,
           evaluated |-> evaluated]
     ELSE IF evaluate(children, c.m, <<>>, "none").assignment
               = Assignment(TRUE, TRUE)
          THEN [result |-> Assignment(TRUE, TRUE), m |-> c.m,
                evaluated |-> Append(evaluated, c.m)]
          ELSE bruteForceRun(children, vs, c.m, Append(evaluated, c.m))

\* the trees the parser can build with at most MaxLits literals: every node
\* has two literals or more
BuiltTrees ==
  { t \in Trees : t # <<>> /\ \A i \in 1..Len(t) : Len(t[i]) >= 2 }

\* the state in which Solver::run starts the BruteForce phase: a tree no
\* clause of which is unit, nothing assigned
BruteForceInit ==
  /\ source = "stream"
  /\ poolPos = 0
  /\ phi = <<>>
  /\ m_current = <<>>
  /\ nodeMemory = <<>>
  /\ root \in BuiltTrees
  /\ m_assignments = <<>>
  /\ trail = <<>>
  /\ stack = <<>>
  /\ ret = Assignment(FALSE, FALSE)
  /\ pc = "bruteForce"
  /\ phase = "BruteForce"
  /\ stdout = <<>>
  /\ exitCode = -1
  /\ details = ""
  /\ input = <<>>
  /\ clauses = << >>
  /\ variables = << >>
  /\ currentLiterals = {}
  /\ calls = <<>>

\* BruteForce(ctx).run()
BruteForceRun ==
  /\ pc = "bruteForce"
  /\ \E r \in { bruteForceRun(root, getVariables(root), m_assignments, <<>>) } :
       /\ ret' = r.result
       /\ m_assignments' = r.m
  /\ pc' = "bruteForceReturned"
  /\ UNCHANGED << source, poolPos, phi, m_current, nodeMemory, root, trail,
                  stack, phase, stdout, exitCode, details >>
  /\ UNCHANGED graphVars

\* BruteForce::run has returned to Solver::runPhaseResult
BruteForceResult ==
  /\ pc = "bruteForceReturned"
  /\ UNCHANGED << source, poolPos, phi, m_current, nodeMemory, root,
                  m_assignments, trail, stack, ret, phase >>
  /\ UNCHANGED graphVars
  /\ runPhaseResult(ret, NO_SOLUTION("None found"))

BruteForceNext == BruteForceRun \/ BruteForceResult

BruteForceSpec == BruteForceInit /\ [][BruteForceNext]_vars

\* the total assignments of the variables of the tree, each as the set of
\* its true variables
totalAssignments == SUBSET { getVariables(root)[i] : i \in 1..Len(getVariables(root)) }

\* m assigns every variable of the tree, the true ones being those of T
isTotal(m, T) ==
  \A i \in 1..Len(getVariables(root)) :
    /\ getVariableAssignment(m, getVariables(root)[i]).assigned
    /\ getVariableAssignment(m, getVariables(root)[i]).value
         <=> getVariables(root)[i] \in T

\* C34 BruteForce is exhaustive: it answers unsatisfiable only after
\* evaluating the formula under every total assignment of its variables,
\* the all-false one included, and it answers satisfiable with the first
\* evaluated assignment that makes the formula true.
BruteForceExhaustive ==
  pc = "bruteForce" =>
    LET r == bruteForceRun(root, getVariables(root), m_assignments, <<>>)
    IN /\ r.result = Assignment(TRUE, FALSE) =>
            \A T \in totalAssignments :
              \E k \in 1..Len(r.evaluated) : isTotal(r.evaluated[k], T)
       /\ r.result = Assignment(TRUE, TRUE) =>
            /\ r.evaluated # <<>>
            /\ \A k \in 1..Len(r.evaluated) :
                 (conjunctionValue(r.evaluated[k], root) = "true")
                   <=> k = Len(r.evaluated)

\* the consequence for the verdict: BruteForce does not answer
\* unsatisfiable for a satisfiable tree
BruteForceComplete ==
  (pc = "bruteForceReturned" /\ ret = Assignment(TRUE, FALSE)) => ~satisfiable(root)

\* the answers of BruteForce that do hold: a satisfiable answer comes with
\* an assignment that makes every clause true
BruteForceSound ==
  (pc = "bruteForceReturned" /\ ret = Assignment(TRUE, TRUE)) =>
    conjunctionValue(m_assignments, root) = "true"

\* C35 The literal 0 is never stored: no stored clause and no pending
\* literal set of the GraphSolver contains 0, and no variable record has the
\* id 0.
ZeroNeverStored ==
  /\ 0 \notin currentLiterals
  /\ \A id \in DOMAIN clauses : 0 \notin clauses[id]
  /\ 0 \notin DOMAIN variables

\* the same for ContextBuilder: neither the pending literals nor a node
\* holds 0 while the input is read
ZeroNeverStoredByBuilder ==
  pc = "build" =>
    /\ \A j \in 1..Len(m_current) : m_current[j] # 0
    /\ \A i \in 1..Len(nodeMemory) : \A j \in 1..Len(nodeMemory[i]) :
         nodeMemory[i][j] # 0

\* a literal that stands at two places of a clause
duplicateLiteral(clause) ==
  \E i, j \in 1..Len(clause) :
    i < j /\ clause[i] # NO_LITERAL /\ clause[i] = clause[j]

\* C36 No stored clause contains the same literal twice: neither a node of
\* the builder nor a node of the tree holds a literal at two places.
NoDuplicateLiteral ==
  /\ \A i \in 1..Len(nodeMemory) : ~duplicateLiteral(nodeMemory[i])
  /\ \A i \in 1..Len(root) : ~duplicateLiteral(root[i])

\* the clauses of the tree a literal stands in
clausesWith(literal) ==
  { i \in 1..Len(root) : \E j \in 1..Len(root[i]) : root[i][j] = literal }

\* the static score of a variable: max(|positive clauses|, |negative clauses|)
score(variable) ==
  LET positive == Cardinality(clausesWith(variable))
      negative == Cardinality(clausesWith(-variable))
  IN IF positive >= negative THEN positive ELSE negative

\* C37 Decision variables are tried in descending order of the static score:
\* in the list a search step decides from, no variable stands before a
\* variable with a strictly higher score.
ScoreOrder ==
  pc = "decide" =>
    \A a, b \in 1..Len(frame.variables) :
      a < b => score(frame.variables[a]) >= score(frame.variables[b])

\* ------------------------------------------------- Simplifier tree rewriting
\* the trees ContextBuilder hands to the Simplifier: a LITERAL_OR node of two
\* to MaxLits literals, alone or with a node over the first two variables
\* before or after it (a clause of one literal becomes an assignment, never
\* a node)
SimplifierTrees ==
  LET wide == UNION { nodesOf(k) : k \in 2..MaxLits }
      pair == { << a, b >> : a \in {-1, 1}, b \in {-2, 2} }
  IN { << c >> : c \in wide }
     \cup { << c, d >> : c \in wide, d \in pair }
     \cup { << d, c >> : c \in wide, d \in pair }

\* the assignments the unit clauses of the input and the Simplifier leave:
\* nothing was unassigned yet, so an unassigned variable has no value stored
SimplifierAssignments ==
  { m \in Assignments :
      \A v \in 1..MaxVar : ~m[2 * v - 1] => ~m[2 * v] }

\* the state in which Simplifier::run leaves its loop with an undetermined
\* result: the last pass over the tree assigned nothing
SimplifyInit ==
  /\ source = "stream"
  /\ poolPos = 0
  /\ phi = <<>>
  /\ m_current = <<>>
  /\ root \in SimplifierTrees
  /\ nodeMemory = root
  /\ m_assignments \in SimplifierAssignments
  /\ LET r == evaluate(root, m_assignments, <<>>, "simplifier")
     IN ~r.assignment.assigned /\ ~r.assigned
  /\ trail = <<>>
  /\ stack = <<>>
  /\ ret = Assignment(FALSE, FALSE)
  /\ pc = "simplifyTree"
  /\ phase = "Simplify"
  /\ stdout = <<>>
  /\ exitCode = -1
  /\ details = ""
  /\ input = <<>>
  /\ clauses = << >>
  /\ variables = << >>
  /\ currentLiterals = {}
  /\ calls = <<>>

SimplifyNext == SimplifyTree

SimplifySpec == SimplifyInit /\ [][SimplifyNext]_vars

\* the literals of a clause that m leaves unassigned, in their order
unassignedLiterals(clause, m) ==
  SelectSeq(clause, LAMBDA l : ~getLiteralAssignment(m, l).assigned)

\* the clauses m does not satisfy, in their order, each with its unassigned
\* literals
remainder(children, m) ==
  LET open == SelectSeq(children, LAMBDA c : ~trueIn(m, c))
  IN [i \in 1..Len(open) |-> unassignedLiterals(open[i], m)]

\* some total assignment that extends m satisfies the formula; under m
\* itself a clause holds by a literal m makes true or by a literal of an
\* unassigned variable the extension makes true
satisfiableFrom(formula, m) ==
  \E T \in SUBSET (1..MaxVar) :
    /\ \A v \in 1..MaxVar :
         getVariableAssignment(m, v).assigned =>
           (v \in T <=> getVariableAssignment(m, v).value)
    /\ models(T, formula)

\* C38 Simplifier tree rewriting preserves the formula: Node::simplify leaves
\* exactly the clauses the assignment does not satisfy, each with exactly its
\* unassigned literals in their order, and an extension of the assignment
\* satisfies the tree left iff one satisfies the tree before.
SimplifyPreserves ==
  [][pc = "simplifyTree" =>
       /\ root' = remainder(root, m_assignments)
       /\ satisfiableFrom(root', m_assignments)
            <=> satisfiableFrom(root, m_assignments)]_vars

\* simplify has dropped a clause and, from a clause it kept, a literal
SimplifyPreservesWitness ==
  /\ pc = "step"
  /\ root = remainder(nodeMemory, m_assignments)
  /\ Len(root) < Len(nodeMemory)
  /\ \E i \in 1..Len(root) : \E k \in 1..Len(nodeMemory) :
       /\ root[i] = unassignedLiterals(nodeMemory[k], m_assignments)
       /\ Len(root[i]) < Len(nodeMemory[k])
       /\ Len(root[i]) >= 2

\* -------------------------------------- LiteralAssignment driven by a client
\* a LiteralAssignment as constructed; input holds the literals the client
\* has assigned so far, calls the last call made
LiteralAssignmentInit ==
  /\ source = "stream"
  /\ poolPos = 0
  /\ phi = <<>>
  /\ m_current = <<>>
  /\ nodeMemory = <<>>
  /\ root = <<>>
  /\ m_assignments = <<>>
  /\ trail = <<>>
  /\ stack = <<>>
  /\ ret = Assignment(FALSE, FALSE)
  /\ pc = "assignments"
  /\ phase = "LiteralAssignment"
  /\ stdout = <<>>
  /\ exitCode = -1
  /\ details = ""
  /\ input = <<>>
  /\ clauses = << >>
  /\ variables = << >>
  /\ currentLiterals = {}
  /\ calls = <<>>

\* the members of the LiteralAssignment the client leaves alone
assignmentFrame ==
  UNCHANGED << source, poolPos, phi, m_current, nodeMemory, root, trail, stack,
               ret, pc, phase, stdout, exitCode, details, clauses, variables,
               currentLiterals >>

\* assignLiteral(literal, true); the DEV_ASSURE of line 129 is the
\* precondition that the variable is not assigned
AssignLiteral(literal) ==
  /\ pc = "assignments"
  /\ Len(input) < MaxLits
  /\ ~getLiteralAssignment(m_assignments, literal).assigned
  /\ m_assignments' = assignLiteral(m_assignments, literal, TRUE)
  /\ input' = Append(input, literal)
  /\ calls' = << Call("assignLiteral", literal, TRUE, "done") >>
  /\ assignmentFrame

\* unassignVariable(id); the DEV_ASSURE of line 135 is the precondition that
\* the variable is assigned
UnassignVariable(id) ==
  /\ pc = "assignments"
  /\ getVariableAssignment(m_assignments, id).assigned
  /\ m_assignments' = unassignVariable(m_assignments, id)
  /\ calls' = << Call("unassignVariable", id, FALSE, "done") >>
  /\ UNCHANGED input
  /\ assignmentFrame

\* setMaxVariable(max) with a capacity above the current one
SetMaxVariable(max) ==
  /\ pc = "assignments"
  /\ max > getMaxVariable(m_assignments)
  /\ m_assignments' = setMaxVariable(m_assignments, max)
  /\ calls' = << Call("setMaxVariable", max, FALSE, "done") >>
  /\ UNCHANGED input
  /\ assignmentFrame

LiteralAssignmentNext ==
  \/ \E literal \in Literals : AssignLiteral(literal)
  \/ \E id \in 1..MaxVar : UnassignVariable(id)
  \/ \E max \in 1..MaxVar : SetMaxVariable(max)

LiteralAssignmentSpec ==
  LiteralAssignmentInit /\ [][LiteralAssignmentNext]_vars

\* no assignLiteral call so far was for the variable
neverAssigned(in, variable) ==
  \A k \in 1..Len(in) : toVariable(in[k]) # variable

\* C39 LiteralAssignment round trip and frame: a variable never assigned,
\* also one above the capacity, reads unassigned; after assignLiteral(l, true)
\* l reads true and -l false; after unassignVariable(v) v reads unassigned;
\* assigning, unassigning or growing the capacity changes what no other
\* variable reads.
RoundTripAndFrame ==
  [][ \A c \in { calls'[k] : k \in 1..Len(calls') } :
        /\ \A v \in 1..(MaxVar + 1) :
             neverAssigned(input', v) =>
               /\ getVariableAssignment(m_assignments', v)
                    = Assignment(FALSE, FALSE)
               /\ ~getLiteralAssignment(m_assignments', -v).assigned
        /\ c.op = "assignLiteral" =>
             /\ getLiteralAssignment(m_assignments', c.id)
                  = Assignment(TRUE, TRUE)
             /\ getLiteralAssignment(m_assignments', -c.id)
                  = Assignment(TRUE, FALSE)
        /\ c.op = "unassignVariable" =>
             ~getVariableAssignment(m_assignments', c.id).assigned
        /\ \A w \in 1..(MaxVar + 1) :
             (c.op = "setMaxVariable" \/ w # toVariable(c.id)) =>
               getVariableAssignment(m_assignments', w)
                 = getVariableAssignment(m_assignments, w) ]_vars

\* a variable was unassigned while a variable with a higher id, assigned
\* before it and growing the capacity past it, stays assigned
RoundTripAndFrameWitness ==
  /\ pc = "assignments"
  /\ calls # <<>>
  /\ calls[1].op = "unassignVariable"
  /\ Len(input) >= 2
  /\ toVariable(input[1]) > calls[1].id
  /\ getVariableAssignment(m_assignments, toVariable(input[1])).assigned
  /\ getMaxVariable(m_assignments) < MaxVar + 1

====
